---- MODULE Spec2Model ----
(***************************************************************************)
(* State-machine model of the social content protocol of shogun-mistodon:  *)
(* SocialNetwork (src/src/utils/socialProtocol.ts) on top of a Gun graph   *)
(* store, and the hooks that drive it.                                     *)
(*                                                                         *)
(* The store is one graph, a function from paths to values.  A path that   *)
(* was never written is absent from the function's domain (a read yields   *)
(* Undefined); put(null) leaves a tombstone (Null).  Code between two      *)
(* suspension points of the single-threaded event loop runs to completion: *)
(* the variable run holds the synchronous block in progress and no other   *)
(* handler takes a step while it is set.                                   *)
(***************************************************************************)
EXTENDS Integers, Sequences, FiniteSets, TLC

(***************************************************************************)
(* Bounds of the model.                                                    *)
(***************************************************************************)
MaxPosts == 2      \* publishPost calls that create a post node
MaxRefires == 1    \* repeated invocations of a post-node listener
MaxTime == 2       \* last instant of the wall clock
DayLen == 2        \* clock instants per calendar day
MaxDeletes == 1    \* deletePost calls
MaxSide == 1       \* follow / unfollow / repost / unrepost / profile calls
MaxLikes == 1      \* likePost calls
MaxDeliver == 2    \* deliveries of map().on to a subscription
MaxCancel == 2     \* calls of the cancel function of a subscription
MaxFollows == 3    \* follow / unfollow calls of a behaviour that holds no other call
MaxTextLen == 4    \* longest text of the behaviours that range over all texts
MaxProfileCalls == 3 \* updateProfile / getUserProfile calls of a behaviour on profiles
ThreadLen == 3     \* posts of a thread, each a reply to the one before it
MaxPuts == 2       \* gunPut calls of a behaviour on gunPut
MaxAcks == 2       \* invocations of the ack callback of one put

(***************************************************************************)
(* Program constants.                                                      *)
(***************************************************************************)
LookbackDays == 7  \* for (let i = 0; i < 7; i++)
KeyLenMin == 20    \* replyKey.length > 20

Users == {"U", "V"}
NoUser == "none"

NoReply == 0
NoSoul == 0

\* Characters of the post texts; \w is [A-Za-z0-9_].
WordChars == {"h", "w", "W"}
TextTagged == <<"h", " ", "#", "W">>
TextPlain == <<"h">>
Texts == {TextTagged, TextPlain}

Souls == 1..MaxPosts
HashBase == 10
NodeBase == 100

Null == <<"null">>
Undefined == <<"undefined">>

VARIABLES
  quota,      \* how many deletePost, interaction and like calls a behaviour holds
  now,        \* the wall clock (Date.now(), new Date())
  sea,        \* the hashing primitive of this runtime: "ok", "missing", "throws"
  auth,       \* this.user.is.pub, or NoUser
  content,    \* soul -> the post node created by user.get('posts').set(postData)
  store,      \* the public graph: path -> value
  refires,    \* repeated invocations of post-node listeners so far
  pubRes,     \* soul -> how the promise of that publishPost call settled
  run,        \* the synchronous block in progress
  del,        \* the deletePost call in progress
  dels,       \* number of deletePost calls that passed the session check
  casc,       \* the listeners deletePost left on posts/{id}/replies
  cascPend,   \* replies whose author the cascade is looking up
  sides,      \* follow / unfollow / repost / unrepost / profile calls so far
  likes,      \* likePost calls so far
  profilesCache, \* this.profilesCache: public key -> profile
  currentUserFollowing, \* currentUserFollowing of useFollow
  acks,       \* puts of updateProfile whose ack has not fired: partial -> how many
  profReads,  \* profile reads of getUserProfile in flight: public key -> how many
  resolved,   \* history: the keys whose profile read has completed since the cache was cleared
  following,  \* the following state of useFollow: the keys its list shows
  followers,  \* the followers state of useFollow
  followingSet, \* followingSet of loadFollowing: the keys its listener has added
  followersSet, \* followersSet of loadFollowers
  puts,       \* the gunPut calls in order: the closure and the promise of each
  sub,        \* the subscription: its index root, and whether the hook consumes it
  delivs,     \* deliveries of map().on to the listener of the subscription so far
  reads,      \* content reads in flight: [id, soul] -> how many
  lookups,    \* profile reads in flight: [id, authorPub] -> how many
  emitted,    \* post id -> invocations of the callback given to SocialNetwork
  processedPosts, \* processedPostsRef of useSocialProtocol
  postsMap,   \* the ids in postsMap of the hook's view
  emittedData, \* the posts handed to the callback: id, text and author
  registered, \* the listeners of the subscription that are attached to the store
  listenersRef, \* listenersRef of useSocialProtocol: the listeners its cleanups detach
  cancels,    \* calls of the cancel function of the subscription so far
  loading,    \* the loading flag of the hook
  posts,      \* the ids of the posts state of the hook
  updateTimer, \* updateTimerRef of useSocialProtocol: the pending debounced update
  loadingTimer, \* whether the loading timeout of the view is pending
  lagging,    \* soul -> how much of a content node has not reached this peer yet
  ret         \* what the handler that just ran returned to its caller

vars == <<quota, now, sea, auth, content, store, refires, pubRes, run, del, dels, casc,
          cascPend, sides, likes, profilesCache, currentUserFollowing, acks, profReads,
          resolved, following, followers, followingSet, followersSet, puts, sub,
          delivs,
          reads, lookups, emitted, processedPosts, postsMap, emittedData, registered,
          listenersRef, cancels, loading, posts, updateTimer, loadingTimer, lagging,
          ret>>

pubVars == <<content, refires, pubRes, run>>
delVars == <<del, dels, casc, cascPend>>
listVars == <<following, followers, followingSet, followersSet>>
sideVars == <<sides, likes, profilesCache, currentUserFollowing, acks, profReads, resolved,
             listVars, puts>>
subVars == <<sub, delivs, reads, lookups, emitted, processedPosts, postsMap,
            emittedData, registered, listenersRef, cancels, loading, posts,
            updateTimer, loadingTimer, lagging>>

(***************************************************************************)
(* The graph store.                                                        *)
(***************************************************************************)
EmptyStore == [p \in {} |-> Null]

Get(s, p) == IF p \in DOMAIN s THEN s[p] ELSE Undefined

\* An entry of an author index: <<"entry", soul, hash, timestamp, reposted>>,
\* and a profile: <<"profile", displayName, bio>>.  A field that an object
\* does not carry is NoSoul, 0 or "".
OwnEntry(soul, h, ts) == <<"entry", soul, h, ts, "">>
RepostEntry(ts) == <<"entry", 0, 0, ts, "true">>

\* put(object) on a node that holds an object merges field by field.
Merge(old, v) ==
  IF v[1] = "entry" /\ old[1] = "entry"
  THEN <<"entry",
         IF v[2] = 0 THEN old[2] ELSE v[2],
         IF v[3] = 0 THEN old[3] ELSE v[3],
         IF v[4] = 0 THEN old[4] ELSE v[4],
         IF v[5] = "" THEN old[5] ELSE v[5]>>
  ELSE IF v[1] = "profile" /\ old[1] = "profile"
  THEN <<"profile",
         IF v[2] = "" THEN old[2] ELSE v[2],
         IF v[3] = "" THEN old[3] ELSE v[3]>>
  ELSE v

Put(s, p, v) ==
  [q \in (DOMAIN s) \cup {p} |-> IF q = p THEN Merge(Get(s, p), v) ELSE s[q]]

RECURSIVE PutAll(_, _)
PutAll(s, ws) ==
  IF ws = <<>> THEN s
  ELSE PutAll(Put(s, Head(ws)[1], Head(ws)[2]), Tail(ws))

Truthy(v) == v # Null /\ v # Undefined

\* Multisets of the operations in flight.
EmptyBag == [e \in {} |-> 0]

BagAdd(b, e) ==
  [x \in (DOMAIN b) \cup {e} |-> IF x = e THEN (IF e \in DOMAIN b THEN b[e] ELSE 0) + 1
                                  ELSE b[x]]

BagDel(b, e) ==
  [x \in {y \in DOMAIN b : y # e \/ b[e] > 1} |-> IF x = e THEN b[e] - 1 ELSE b[x]]

\* Paths of the persisted layout.
HashTablePath(h) == <<"#posts", h>>
TimelinePath(day, h) == <<"timeline", day, h>>
UserPostsPath(u, h) == <<"users", u, "posts", h>>
BidirPath(u, k) == <<"users", u, "posts_bidirectional", k>>
AuthorPath(h) == <<"posts", h, "author">>
ReplyToPath(h) == <<"posts", h, "replyTo">>
RepliesPath(parent, k) == <<"posts", parent, "replies", k>>
PostTagsPath(h, k) == <<"posts", h, "tags", k>>
TagPath(tag) == <<"hashtags", tag>>
TagPostsPath(tag, k) == <<"hashtags", tag, "posts", k>>
SignedPostsPath(u, k) == <<"~", u, "posts", k>>
ProfilePath(u) == <<"~", u, "profile">>
FollowingPath(u, target) == <<"users", u, "following", target>>
FollowersPath(target, u) == <<"users", target, "followers", u>>
\* gun.get('posts'), the root-level node of the interaction hooks.
RootPostPath(h, field, u) == <<"/posts", h, field, u>>

DayOf(t) == t \div DayLen

(***************************************************************************)
(* Session and hashing primitive.                                          *)
(***************************************************************************)
\* A session check that lets every caller through.
IsAuthenticatedAlways(a) == TRUE

IsAuthenticated(a) == a # NoUser

GetCurrentUserPub(a) == a

SeaAvailable(m) == m # "missing"

\* A digest on which all souls collide.
HashCollide(soul) == HashBase + 1

Hash(soul) == HashBase + soul

HashError == 0

\* A hashing step whose failure goes unnoticed.
SeaWorkBlind(m, soul) == HashBase + soul

\* await SEA.work(postSoul, null, null, {name: 'SHA-256'}): the digest, or a throw.
SeaWork(m, soul) == IF m = "ok" THEN Hash(soul) ELSE HashError

\* The soul of the node gun.get(appName).get('posts').get(hash).
NodeSoul(h) == NodeBase + h

\* The soul of the node gun.get(appName).get('hashtags').get(tag).
TagSoul(tag) == <<"@">> \o tag

\* put() on one fixed node instead of set(): every post lands on soul 1.
NewSoulFixed(c) == 1

NewSoul(c) == Cardinality(DOMAIN c) + 1

(***************************************************************************)
(* text.match(/#\w+/g) and tag.replace('#', '').toLowerCase().             *)
(***************************************************************************)
IsWordChar(c) == c \in WordChars

RECURSIVE WordEnd(_, _)
WordEnd(text, i) ==
  IF i <= Len(text) /\ IsWordChar(text[i]) THEN WordEnd(text, i + 1) ELSE i

RECURSIVE MatchFrom(_, _)
MatchFrom(text, i) ==
  IF i > Len(text) THEN <<>>
  ELSE IF text[i] = "#" /\ WordEnd(text, i + 1) > i + 1
       THEN <<SubSeq(text, i, WordEnd(text, i + 1) - 1)>>
              \o MatchFrom(text, WordEnd(text, i + 1))
       ELSE MatchFrom(text, i + 1)

HashtagMatches(text) == MatchFrom(text, 1)

ToLower(c) == IF c = "W" THEN "w" ELSE c

\* A normalisation that keeps the case of the match.
CleanTagKeepCase(tag) == [i \in 1..(Len(tag) - 1) |-> tag[i + 1]]

CleanTag(tag) == [i \in 1..(Len(tag) - 1) |-> ToLower(tag[i + 1])]

(***************************************************************************)
(* publishPost: the writes of one invocation of the post-node listener,    *)
(* in the order the code issues them.                                      *)
(***************************************************************************)
\* A reply that is entered under its parent without the link back.
ReplyWritesOneWay(h, post) ==
  IF post.replyTo # NoReply
  THEN << <<RepliesPath(post.replyTo, h), <<"ref", h, post.timestamp>> >>,
          <<RepliesPath(post.replyTo, NodeSoul(h)), <<"node", h>> >> >>
  ELSE <<>>

\* if (replyToId) { ... }
ReplyWrites(h, post) ==
  IF post.replyTo # NoReply
  THEN << <<RepliesPath(post.replyTo, h), <<"ref", h, post.timestamp>> >>,
          <<RepliesPath(post.replyTo, NodeSoul(h)), <<"node", h>> >>,
          <<ReplyToPath(h), <<"node", post.replyTo>> >> >>
  ELSE <<>>

RECURSIVE TagWrites(_, _, _)
TagWrites(h, post, tags) ==
  IF tags = <<>> THEN <<>>
  ELSE LET cleanTag == CleanTag(Head(tags))
       IN << <<TagPath(cleanTag), <<"tag", cleanTag>> >>,
             <<TagPostsPath(cleanTag, h), <<"ref", h, post.timestamp>> >>,
             <<TagPostsPath(cleanTag, NodeSoul(h)), <<"node", h>> >>,
             <<PostTagsPath(h, TagSoul(cleanTag)), <<"tag", cleanTag>> >> >>
          \o TagWrites(h, post, Tail(tags))

IndexHashtags(h, post) == TagWrites(h, post, HashtagMatches(post.text))

\* The same writes with the content-address entry issued last.
PublishWritesLate(soul, h, post, day) ==
  << <<TimelinePath(day, h), <<"soul", soul>> >>,
     <<UserPostsPath(post.authorPub, h), OwnEntry(soul, h, post.timestamp)>>,
     <<AuthorPath(h), <<"user", post.authorPub>> >>,
     <<BidirPath(post.authorPub, NodeSoul(h)), <<"node", h>> >> >>
  \o ReplyWrites(h, post)
  \o IndexHashtags(h, post)
  \o << <<HashTablePath(h), <<"soul", soul>> >> >>

PublishWrites(soul, h, post, day) ==
  << <<HashTablePath(h), <<"soul", soul>> >>,
     <<TimelinePath(day, h), <<"soul", soul>> >>,
     <<UserPostsPath(post.authorPub, h), OwnEntry(soul, h, post.timestamp)>>,
     <<AuthorPath(h), <<"user", post.authorPub>> >>,
     <<BidirPath(post.authorPub, NodeSoul(h)), <<"node", h>> >> >>
  \o ReplyWrites(h, post)
  \o IndexHashtags(h, post)

NoRun == [soul |-> NoSoul, hash |-> HashError, i |-> 0]

RunWrites == PublishWrites(run.soul, run.hash, content[run.soul], DayOf(now))

Idle == run = NoRun

NoRet == [op |-> "none", res |-> "none", soul |-> NoSoul, by |-> NoUser, issued |-> {},
          key |-> NoUser, profile |-> <<>>]

PubRet(res, soul, by) ==
  [op |-> "publishPost", res |-> res, soul |-> soul, by |-> by, issued |-> {},
   key |-> NoUser, profile |-> <<>>]

\* Hashes a caller can name: those of the posts published so far.
KnownHashes == {Hash(s) : s \in {x \in DOMAIN content : pubRes[x] = "ok"}}

(***************************************************************************)
(* publishPost(text, null, replyToId), up to the registration of the       *)
(* listener on the new node.                                               *)
(***************************************************************************)
PublishEarly(a, m) ==
  IF ~IsAuthenticated(a) THEN "unauthenticated"
  ELSE IF GetCurrentUserPub(a) = NoUser THEN "nopub"
  ELSE IF ~SeaAvailable(m) THEN "nosea"
  ELSE "none"

PublishPost(text, replyToId) ==
  /\ Idle
  /\ IF PublishEarly(auth, sea) # "none"
     THEN /\ ret' = PubRet(PublishEarly(auth, sea), NoSoul, auth)
          /\ UNCHANGED <<content, store, refires, pubRes>>
     ELSE LET soul == NewSoul(content)
              post == [text |-> text, authorPub |-> GetCurrentUserPub(auth),
                       timestamp |-> now, replyTo |-> replyToId]
          IN /\ soul <= MaxPosts
             /\ content' = [s \in (DOMAIN content) \cup {soul} |->
                              IF s = soul THEN post ELSE content[s]]
             /\ store' = Put(store, SignedPostsPath(post.authorPub, soul),
                             <<"soul", soul>>)
             /\ UNCHANGED refires
             /\ pubRes' = [s \in DOMAIN content' |->
                             IF s = soul THEN "pending" ELSE pubRes[s]]
             /\ ret' = NoRet
  /\ UNCHANGED <<now, sea, quota, auth, run, delVars, sideVars, subVars>>

\* The listener on the post node is invoked (the first time, or again) and
\* await SEA.work settles: the block of writes starts, or the catch resolves.
ListenerFires(soul) ==
  /\ Idle
  /\ soul \in DOMAIN content
  /\ pubRes[soul] = "pending" \/ refires < MaxRefires
  /\ refires' = IF pubRes[soul] = "pending" THEN refires ELSE refires + 1
  /\ IF SeaWork(sea, soul) = HashError
     THEN /\ pubRes' = [pubRes EXCEPT ![soul] = IF @ = "pending" THEN "hashfail" ELSE @]
          /\ ret' = IF pubRes[soul] = "pending"
                    THEN PubRet("hashfail", soul, content[soul].authorPub)
                    ELSE NoRet
          /\ UNCHANGED run
     ELSE /\ run' = [soul |-> soul, hash |-> SeaWork(sea, soul), i |-> 1]
          /\ ret' = NoRet
          /\ UNCHANGED pubRes
  /\ UNCHANGED <<now, sea, quota, auth, content, store, delVars, sideVars, subVars>>

\* The same invocation as one step: the block of lines 184-225 has no
\* suspension point, so no other handler observes it half done.
ListenerRuns(soul) ==
  /\ Idle
  /\ soul \in DOMAIN content
  /\ pubRes[soul] = "pending" \/ refires < MaxRefires
  /\ refires' = IF pubRes[soul] = "pending" THEN refires ELSE refires + 1
  /\ IF SeaWork(sea, soul) = HashError
     THEN /\ pubRes' = [pubRes EXCEPT ![soul] = IF @ = "pending" THEN "hashfail" ELSE @]
          /\ ret' = IF pubRes[soul] = "pending"
                    THEN PubRet("hashfail", soul, content[soul].authorPub)
                    ELSE NoRet
          /\ UNCHANGED store
     ELSE /\ store' = PutAll(store, PublishWrites(soul, SeaWork(sea, soul),
                                                  content[soul], DayOf(now)))
          /\ pubRes' = [pubRes EXCEPT ![soul] = IF @ = "pending" THEN "ok" ELSE @]
          /\ ret' = IF pubRes[soul] = "pending"
                    THEN PubRet("ok", soul, content[soul].authorPub)
                    ELSE NoRet
  /\ UNCHANGED <<now, sea, quota, auth, content, run, delVars, sideVars, subVars>>

\* One write of the block, in program order.
PublishWrite ==
  /\ ~Idle
  /\ run.i <= Len(RunWrites)
  /\ store' = Put(store, RunWrites[run.i][1], RunWrites[run.i][2])
  /\ run' = [run EXCEPT !.i = @ + 1]
  /\ UNCHANGED <<now, sea, quota, auth, content, refires, pubRes, ret, delVars, sideVars, subVars>>

\* resolve({success: true, id: postHash, hash: postHash})
PublishResolve ==
  /\ ~Idle
  /\ run.i = Len(RunWrites) + 1
  /\ pubRes' = [pubRes EXCEPT ![run.soul] = IF @ = "pending" THEN "ok" ELSE @]
  /\ ret' = IF pubRes[run.soul] = "pending"
            THEN PubRet("ok", run.soul, content[run.soul].authorPub)
            ELSE NoRet
  /\ run' = NoRun
  /\ UNCHANGED <<now, sea, quota, auth, content, store, refires, delVars, sideVars, subVars>>

(***************************************************************************)
(* deletePost(postId).                                                     *)
(***************************************************************************)
NoData == [text |-> <<>>, authorPub |-> NoUser, timestamp |-> 0, replyTo |-> NoReply,
           kind |-> "none"]

\* The data of a node gun.get(appName).get('posts').get(hash): links only.
LinkData == [text |-> <<>>, authorPub |-> NoUser, timestamp |-> 0, replyTo |-> NoReply,
             kind |-> "links"]

IsSoulVal(v) == v[1] = "soul"

IsContentSoul(c, soul) == soul \in DOMAIN c

\* gun.get(postSoul).once(data => ...), with the metadata field dropped.
ReadNode(c, soul) ==
  IF IsContentSoul(c, soul)
  THEN [text |-> c[soul].text, authorPub |-> c[soul].authorPub,
        timestamp |-> c[soul].timestamp, replyTo |-> c[soul].replyTo, kind |-> "post"]
  ELSE IF soul > NodeBase THEN LinkData
  ELSE NoData

\* Method 2: the first of the 7 most recent shards that holds a soul.
RECURSIVE TimelineLookup(_, _, _, _)
TimelineLookup(st, postId, today, i) ==
  IF i >= LookbackDays THEN NoSoul
  ELSE IF IsSoulVal(Get(st, TimelinePath(today - i, postId)))
       THEN Get(st, TimelinePath(today - i, postId))[2]
       ELSE TimelineLookup(st, postId, today, i + 1)

\* Method 4: the post node itself, if it holds anything.
NodeExists(st, postId) ==
  \E p \in DOMAIN st : Len(p) >= 3 /\ p[1] = "posts" /\ p[2] = postId

\* Method 3: userPostData.soul
EntrySoul(v) == IF v[1] = "entry" THEN v[2] ELSE NoSoul

ResolveSoul(st, postId, userPub, today) ==
  IF IsSoulVal(Get(st, HashTablePath(postId)))
  THEN Get(st, HashTablePath(postId))[2]
  ELSE IF TimelineLookup(st, postId, today, 0) # NoSoul
  THEN TimelineLookup(st, postId, today, 0)
  ELSE IF EntrySoul(Get(st, UserPostsPath(userPub, postId))) # NoSoul
  THEN EntrySoul(Get(st, UserPostsPath(userPub, postId)))
  ELSE IF NodeExists(st, postId) THEN NodeSoul(postId)
  ELSE NoSoul

\* postData.authorPub || postData.author
PostAuthor(data) == data.authorPub

\* An ownership check that accepts every caller.
IsOwnerAny(data, userPub) == TRUE

IsOwner(data, userPub) == PostAuthor(data) = userPub

DeleteVerdict(data, userPub) ==
  IF data.kind = "none" THEN "nodata"
  ELSE IF ~IsOwner(data, userPub) THEN "forbidden"
  ELSE "ok"

TimelineRemovals(h, ts) ==
  IF ts # 0
  THEN [i \in 1..LookbackDays |-> <<TimelinePath(DayOf(ts) - (i - 1), h), Null>>]
  ELSE <<>>

RECURSIVE TagRemovals(_, _)
TagRemovals(h, tags) ==
  IF tags = <<>> THEN <<>>
  ELSE << <<TagPostsPath(CleanTag(Head(tags)), h), Null>>,
          <<PostTagsPath(h, CleanTag(Head(tags))), Null>> >>
       \o TagRemovals(h, Tail(tags))

\* The entries of the caller's signed graph that the listener of lines 663-667
\* tombstones: entry.soul === postSoul || entry.hash === postId || key === postId.
\* An entry made by set(postData) is the post itself (no soul, no hash field)
\* under the key of its soul; a repost entry is {id, timestamp, reposted}.
SignedMatches(st, userPub, h) ==
  {p \in DOMAIN st : Len(p) = 4 /\ p[1] = "~" /\ p[2] = userPub /\ p[3] = "posts" /\ p[4] = h}

RECURSIVE SetToSeq(_)
SetToSeq(S) ==
  IF S = {} THEN <<>>
  ELSE LET x == CHOOSE y \in S : TRUE IN <<x>> \o SetToSeq(S \ {x})

SignedRemovals(st, userPub, h) ==
  LET ps == SetToSeq(SignedMatches(st, userPub, h))
  IN [i \in 1..Len(ps) |-> <<ps[i], Null>>]

ParentRemovals(h, data) ==
  IF data.replyTo # NoReply
  THEN << <<RepliesPath(data.replyTo, h), Null>>,
          <<ReplyToPath(h), Null>> >>
  ELSE <<>>

\* A removal that also tombstones the content-address entry.
RemovalWritesHard(st, h, data, userPub) ==
  << <<HashTablePath(h), Null>>, <<UserPostsPath(userPub, h), Null>> >>
  \o SignedRemovals(st, userPub, h)
  \o TimelineRemovals(h, data.timestamp)
  \o TagRemovals(h, HashtagMatches(data.text))
  \o << <<AuthorPath(h), Null>>, <<BidirPath(userPub, h), Null>> >>
  \o ParentRemovals(h, data)

\* Lines 656-736, in program order.
RemovalWrites(st, h, data, userPub) ==
  << <<UserPostsPath(userPub, h), Null>> >>
  \o SignedRemovals(st, userPub, h)
  \o TimelineRemovals(h, data.timestamp)
  \o TagRemovals(h, HashtagMatches(data.text))
  \o << <<AuthorPath(h), Null>>, <<BidirPath(userPub, h), Null>> >>
  \o ParentRemovals(h, data)

\* The author-index tombstone issued ahead of the checks.
DeleteIssuedEager(verdict, st, h, data, userPub) ==
  IF verdict = "ok" THEN RemovalWrites(st, h, data, userPub)
  ELSE << <<UserPostsPath(userPub, h), Null>> >>

\* What the call writes for each verdict: the early returns precede every put.
DeleteIssued(verdict, st, h, data, userPub) ==
  IF verdict = "ok" THEN RemovalWrites(st, h, data, userPub) ELSE <<>>

PathsOf(ws) == {ws[i][1] : i \in 1..Len(ws)}

\* The keys under posts/{parent}/replies that hold an entry.
ListedReplies(st, parent) ==
  {p[4] : p \in {q \in DOMAIN st : Len(q) = 4 /\ q[1] = "posts" /\ q[2] = parent
                                    /\ q[3] = "replies" /\ Truthy(st[q])}}

NoDel == [pc |-> "idle", postId |-> 0, userPub |-> NoUser, soul |-> NoSoul, issued |-> {},
          known |-> {}]

DelRet(res) ==
  [op |-> "deletePost", res |-> res, soul |-> del.soul, by |-> del.userPub,
   issued |-> del.issued, key |-> NoUser, profile |-> <<>>]

\* Lines 529-537: the session checks; the call then awaits the lookups.
DeletePost(postId) ==
  /\ Idle
  /\ del.pc = "idle"
  /\ IF ~IsAuthenticated(auth) \/ GetCurrentUserPub(auth) = NoUser
     THEN /\ ret' = [op |-> "deletePost", res |-> "unauthenticated", soul |-> NoSoul,
                     by |-> auth, issued |-> {}, key |-> NoUser, profile |-> <<>>]
          /\ UNCHANGED <<del, dels>>
     ELSE /\ dels < quota.dels /\ sides + likes = 0
          /\ del' = [pc |-> "resolve", postId |-> postId,
                     userPub |-> GetCurrentUserPub(auth), soul |-> NoSoul, issued |-> {},
                     known |-> ListedReplies(store, postId)]
          /\ dels' = dels + 1
          /\ ret' = NoRet
  /\ UNCHANGED <<now, sea, quota, auth, store, pubVars, casc, cascPend, sideVars, subVars>>

\* Lines 545-619: the four lookups.
DeleteResolve ==
  /\ Idle
  /\ del.pc = "resolve"
  /\ LET soul == ResolveSoul(store, del.postId, del.userPub, DayOf(now))
     IN IF soul = NoSoul
        THEN /\ ret' = DelRet("notfound")
             /\ del' = NoDel
        ELSE /\ del' = [del EXCEPT !.pc = "data", !.soul = soul]
             /\ ret' = NoRet
  /\ UNCHANGED <<now, sea, quota, auth, store, pubVars, dels, casc, cascPend, sideVars, subVars>>

\* Lines 623-792: the post is read, the checks are made, the references are
\* tombstoned and the listener of the cascade is registered. The record of
\* the listener keeps, for the properties, the replies that were listed when
\* the call started (known) and by the time it returned (atReturn).
DeleteRemove ==
  /\ Idle
  /\ del.pc = "data"
  /\ LET data == ReadNode(content, del.soul)
         verdict == DeleteVerdict(data, del.userPub)
         ws == DeleteIssued(verdict, store, del.postId, data, del.userPub)
     IN /\ store' = PutAll(store, ws)
        /\ IF verdict = "ok"
           THEN /\ del' = [del EXCEPT !.pc = "wait", !.issued = PathsOf(ws)]
                /\ casc' = casc \cup {[id |-> dels, parent |-> del.postId,
                                        processed |-> {}, known |-> del.known,
                                        atReturn |-> {}]}
                /\ ret' = NoRet
           ELSE /\ ret' = [DelRet(verdict) EXCEPT !.issued = PathsOf(ws)]
                /\ del' = NoDel
                /\ UNCHANGED casc
  /\ UNCHANGED <<now, sea, quota, auth, pubVars, dels, cascPend, sideVars, subVars>>

\* Lines 794-798: the 200 ms timer elapses.
DeleteReturn ==
  /\ Idle
  /\ del.pc = "wait"
  /\ ret' = DelRet("ok")
  /\ del' = NoDel
  /\ casc' = {IF l.id = dels
              THEN [l EXCEPT !.atReturn = l.known \cup l.processed
                                          \cup ListedReplies(store, l.parent)]
              ELSE l : l \in casc}
  /\ UNCHANGED <<now, sea, quota, auth, store, pubVars, dels, cascPend, sideVars, subVars>>

\* The keys under posts/{parent}/replies that map().on delivers.
ReplyKeys(st, parent) ==
  {p[4] : p \in {q \in DOMAIN st : Len(q) = 4 /\ q[1] = "posts" /\ q[2] = parent
                                    /\ q[3] = "replies"}}

\* A SHA-256 digest in base64, and the soul of a post node, are longer than 20.
KeyLen(k) == 44

ReplyHashOf(entry, key) ==
  IF entry[1] = "ref" THEN entry[2]
  ELSE IF KeyLen(key) > KeyLenMin THEN key
  ELSE 0

\* Lines 743-754 and 789-790: the listener receives a child of replies.
CascadeDeliver(l, key) ==
  /\ Idle
  /\ l \in casc
  /\ key \in ReplyKeys(store, l.parent)
  /\ key \notin l.processed
  /\ casc' = (casc \ {l}) \cup {[l EXCEPT !.processed = @ \cup {key}]}
  /\ LET replyHash == ReplyHashOf(store[RepliesPath(l.parent, key)], key)
     IN cascPend' = IF replyHash # 0 THEN cascPend \cup {replyHash} ELSE cascPend
  /\ store' = Put(store, RepliesPath(l.parent, key), Null)
  /\ ret' = NoRet
  /\ UNCHANGED <<now, sea, quota, auth, pubVars, del, dels, sideVars, subVars>>

CascadeWrites(c, replyHash, replySoul) ==
  LET data == ReadNode(c, replySoul)
  IN IF data.kind # "none" /\ PostAuthor(data) # NoUser
     THEN << <<UserPostsPath(PostAuthor(data), replyHash), Null>> >>
          \o TimelineRemovals(replyHash, data.timestamp)
          \o << <<ReplyToPath(replyHash), Null>> >>
     ELSE <<>>

\* Lines 757-786: #posts/{replyHash} and then the reply are read.
CascadeResolve(replyHash) ==
  /\ Idle
  /\ replyHash \in cascPend
  /\ cascPend' = cascPend \ {replyHash}
  /\ store' = IF IsSoulVal(Get(store, HashTablePath(replyHash)))
              THEN PutAll(store, CascadeWrites(content, replyHash,
                                               Get(store, HashTablePath(replyHash))[2]))
              ELSE store
  /\ ret' = NoRet
  /\ UNCHANGED <<now, sea, quota, auth, pubVars, del, dels, casc, sideVars, subVars>>

(***************************************************************************)
(* The interaction hooks: useFollow, usePostInteractions, and               *)
(* SocialNetwork.updateProfile.                                             *)
(***************************************************************************)
SideRet(op, res) ==
  [op |-> op, res |-> res, soul |-> NoSoul, by |-> auth, issued |-> {},
   key |-> NoUser, profile |-> <<>>]

\* A follow that records only the caller's side.
FollowWritesOneSided(u, target, t) ==
  << <<FollowingPath(u, target), <<"ts", t>> >> >>

\* A self-follow check that lets every target through.
IsSelfNever(currentUserPub, userPubToFollow) == FALSE

\* currentUserPub === userPubToFollow
IsSelf(currentUserPub, userPubToFollow) == currentUserPub = userPubToFollow

\* useFollow.follow(userPubToFollow)
FollowWrites(u, target, t) ==
  << <<FollowingPath(u, target), <<"ts", t>> >>,
     <<FollowersPath(target, u), <<"ts", t>> >> >>

\* useFollow(userPub): the profile whose lists the mounted hook shows
TargetUserPub == "V"

Follow(target) ==
  /\ Idle
  /\ sides < quota.sides /\ dels = 0
  /\ sides' = sides + 1
  /\ IF ~IsAuthenticated(auth)
     THEN /\ ret' = SideRet("follow", "unauthenticated")
          /\ UNCHANGED <<store, currentUserFollowing, followers>>
     ELSE IF IsSelf(GetCurrentUserPub(auth), target)
     THEN /\ ret' = SideRet("follow", "self")
          /\ UNCHANGED <<store, currentUserFollowing, followers>>
     ELSE LET ws == FollowWrites(GetCurrentUserPub(auth), target, now)
          IN /\ store' = PutAll(store, ws)
             /\ currentUserFollowing' = currentUserFollowing \cup {target}
             /\ followers' = IF TargetUserPub = target
                              THEN followers \cup {GetCurrentUserPub(auth)}
                              ELSE followers
             /\ ret' = [SideRet("follow", "ok") EXCEPT !.issued = PathsOf(ws)]
  /\ UNCHANGED <<now, sea, quota, auth, pubVars, delVars, likes, profilesCache, acks,
                 profReads, resolved, following, followingSet, followersSet, puts, subVars>>

\* useFollow.unfollow(userPubToUnfollow)
UnfollowWrites(u, target) ==
  << <<FollowingPath(u, target), Null>>,
     <<FollowersPath(target, u), Null>> >>

Unfollow(target) ==
  /\ Idle
  /\ sides < quota.sides /\ dels = 0
  /\ sides' = sides + 1
  /\ IF ~IsAuthenticated(auth)
     THEN /\ ret' = SideRet("unfollow", "unauthenticated")
          /\ UNCHANGED <<store, currentUserFollowing, followers>>
     ELSE LET ws == UnfollowWrites(GetCurrentUserPub(auth), target)
          IN /\ store' = PutAll(store, ws)
             /\ currentUserFollowing' = currentUserFollowing \ {target}
             /\ followers' = IF TargetUserPub = target
                              THEN followers \ {GetCurrentUserPub(auth)}
                              ELSE followers
             /\ ret' = [SideRet("unfollow", "ok") EXCEPT !.issued = PathsOf(ws)]
  /\ UNCHANGED <<now, sea, quota, auth, pubVars, delVars, likes, profilesCache, acks,
                 profReads, resolved, following, followingSet, followersSet, puts, subVars>>

\* const { _, ...actualData } = data; Object.keys(actualData).length > 0
HasFields(data) == Truthy(data) /\ Len(data) > 1

\* The listener body shared by loadFollowing and loadFollowers: what the list
\* state and the closure's Set become when map().on delivers data under key.
ListListener(data, key, list, set) ==
  IF ~Truthy(data) THEN <<list, set>>
  ELSE IF HasFields(data)
  THEN IF key \notin set THEN <<list \cup {key}, set \cup {key}>> ELSE <<list, set>>
  ELSE <<list \ {key}, set>>

\* loadFollowing: followingNode.map().on((data, key) => ...) delivers the
\* current value of users/{targetUserPub}/following/{key}.
LoadFollowingListener(key) ==
  /\ Idle
  /\ FollowingPath(TargetUserPub, key) \in DOMAIN store
  /\ LET r == ListListener(store[FollowingPath(TargetUserPub, key)], key,
                           following, followingSet)
     IN following' = r[1] /\ followingSet' = r[2]
  /\ ret' = [SideRet("loadFollowing", "delivered") EXCEPT !.key = key]
  /\ UNCHANGED <<now, sea, quota, auth, store, pubVars, delVars, sides, likes,
                 profilesCache, currentUserFollowing, acks, profReads, resolved,
                 followers, followersSet, puts, subVars>>

\* loadFollowers: the same listener on users/{targetUserPub}/followers.
LoadFollowersListener(key) ==
  /\ Idle
  /\ FollowersPath(TargetUserPub, key) \in DOMAIN store
  /\ LET r == ListListener(store[FollowersPath(TargetUserPub, key)], key,
                           followers, followersSet)
     IN followers' = r[1] /\ followersSet' = r[2]
  /\ ret' = [SideRet("loadFollowers", "delivered") EXCEPT !.key = key]
  /\ UNCHANGED <<now, sea, quota, auth, store, pubVars, delVars, sides, likes,
                 profilesCache, currentUserFollowing, acks, profReads, resolved,
                 following, followingSet, puts, subVars>>

\* An answer that does not look at the session.
IsFollowingNoSession(a, list, userPubToCheck) == userPubToCheck \in list

\* useFollow.isFollowing(userPubToCheck): currentUserFollowing.includes(...)
IsFollowing(a, list, userPubToCheck) ==
  /\ IsAuthenticated(a) /\ GetCurrentUserPub(a) # NoUser
  /\ userPubToCheck \in list

\* usePostInteractions.likePost(postId)
LikePost(postId) ==
  /\ Idle
  /\ likes < quota.likes /\ dels = 0
  /\ likes' = likes + 1
  /\ IF ~IsAuthenticated(auth)
     THEN ret' = SideRet("likePost", "unauthenticated") /\ UNCHANGED store
     ELSE /\ store' = Put(store, RootPostPath(postId, "likes", GetCurrentUserPub(auth)),
                          <<"true">>)
          /\ ret' = SideRet("likePost", "ok")
  /\ UNCHANGED <<now, sea, quota, auth, pubVars, delVars, sides, profilesCache,
                 currentUserFollowing, listVars, puts, acks, profReads, resolved, subVars>>

\* gun.get('posts').get(postId).once(data => ...): an object, or nothing.
RootPostExists(st, postId) ==
  \E p \in DOMAIN st : p[1] = "/posts" /\ p[2] = postId

RepostWrites(u, postId, t) ==
  << <<RootPostPath(postId, "reposts", u), <<"ts", t>> >>,
     <<SignedPostsPath(u, postId), RepostEntry(t)>>,
     <<UserPostsPath(u, postId), RepostEntry(t)>> >>

\* usePostInteractions.repost(postId)
Repost(postId) ==
  /\ Idle
  /\ sides < quota.sides /\ dels = 0
  /\ sides' = sides + 1
  /\ IF ~IsAuthenticated(auth)
     THEN ret' = SideRet("repost", "unauthenticated") /\ UNCHANGED store
     ELSE IF ~RootPostExists(store, postId)
     THEN ret' = SideRet("repost", "notfound") /\ UNCHANGED store
     ELSE /\ store' = PutAll(store, RepostWrites(GetCurrentUserPub(auth), postId, now))
          /\ ret' = SideRet("repost", "ok")
  /\ UNCHANGED <<now, sea, quota, auth, pubVars, delVars, likes, profilesCache,
                 currentUserFollowing, listVars, puts, acks, profReads, resolved, subVars>>

UnrepostWrites(u, postId) ==
  << <<RootPostPath(postId, "reposts", u), Null>>,
     <<SignedPostsPath(u, postId), Null>>,
     <<UserPostsPath(u, postId), Null>> >>

\* usePostInteractions.unrepost(postId)
Unrepost(postId) ==
  /\ Idle
  /\ sides < quota.sides /\ dels = 0
  /\ sides' = sides + 1
  /\ IF ~IsAuthenticated(auth)
     THEN ret' = SideRet("unrepost", "unauthenticated") /\ UNCHANGED store
     ELSE /\ store' = PutAll(store, UnrepostWrites(GetCurrentUserPub(auth), postId))
          /\ ret' = SideRet("unrepost", "ok")
  /\ UNCHANGED <<now, sea, quota, auth, pubVars, delVars, likes, profilesCache,
                 currentUserFollowing, listVars, puts, acks, profReads, resolved, subVars>>

NoProfile == <<"profile", "", "">>

Partials == {<<"profile", "a", "">>}

CachedProfile(c, u) == IF u \in DOMAIN c THEN c[u] ELSE NoProfile

\* A memo that never answers.
CacheHitNever(c, userPub) == FALSE

\* if (this.profilesCache[userPub])
CacheHit(c, userPub) == userPub \in DOMAIN c

\* SocialNetwork.updateProfile(profileData): the session check and the put;
\* the promise stays pending until the ack of the put.
UpdateProfile(partial) ==
  /\ Idle
  /\ sides < quota.sides /\ dels = 0
  /\ sides' = sides + 1
  /\ IF ~IsAuthenticated(auth)
     THEN /\ ret' = SideRet("updateProfile", "unauthenticated")
          /\ UNCHANGED <<store, acks>>
     ELSE /\ store' = Put(store, ProfilePath(GetCurrentUserPub(auth)), partial)
          /\ acks' = BagAdd(acks, partial)
          /\ ret' = NoRet
  /\ UNCHANGED <<now, sea, quota, auth, pubVars, delVars, likes, profilesCache,
                 currentUserFollowing, listVars, puts, profReads, resolved, subVars>>

\* { ...this.profilesCache[userPub], ...profileData }
SpreadProfile(c, u, partial) ==
  [v \in (DOMAIN c) \cup {u} |->
     IF v = u THEN Merge(CachedProfile(c, u), partial) ELSE c[v]]

\* The ack of the put fires, with or without an error; the callback rejects,
\* or updates the cache entry of the user then logged in and resolves.
ProfileAck(partial, err) ==
  /\ Idle
  /\ partial \in DOMAIN acks
  /\ acks' = BagDel(acks, partial)
  /\ IF err
     THEN /\ ret' = SideRet("updateProfile", "ackerr")
          /\ UNCHANGED profilesCache
     ELSE /\ profilesCache' = IF GetCurrentUserPub(auth) # NoUser
                              THEN SpreadProfile(profilesCache, GetCurrentUserPub(auth),
                                                 partial)
                              ELSE profilesCache
          /\ ret' = [SideRet("updateProfile", "ok") EXCEPT !.profile = partial]
  /\ UNCHANGED <<now, sea, quota, auth, store, pubVars, delVars, sides, likes,
                 currentUserFollowing, listVars, puts, profReads, resolved, subVars>>

Anonimo == <<"profile", "Anonimo", "">>

\* profile || { displayName: 'Anonimo' }
FetchedProfile(st, u) ==
  IF Truthy(Get(st, ProfilePath(u))) THEN Get(st, ProfilePath(u)) ELSE Anonimo

\* SocialNetwork.getUserProfile(userPub, callback): the cached profile, or a
\* read of the profile node.
GetUserProfile(userPub) ==
  /\ Idle
  /\ sides < quota.sides /\ dels = 0
  /\ sides' = sides + 1
  /\ IF CacheHit(profilesCache, userPub)
     THEN /\ ret' = [SideRet("getUserProfile", "cache") EXCEPT
                       !.key = userPub, !.profile = profilesCache[userPub]]
          /\ UNCHANGED profReads
     ELSE /\ profReads' = BagAdd(profReads, userPub)
          /\ ret' = NoRet
  /\ UNCHANGED <<now, sea, quota, auth, store, pubVars, delVars, likes, profilesCache,
                 currentUserFollowing, listVars, puts, acks, resolved, subVars>>

\* gun.user(userPub).get('profile').once(profile => ...) of getUserProfile.
ProfileFetch(userPub) ==
  /\ Idle
  /\ userPub \in DOMAIN profReads
  /\ profReads' = BagDel(profReads, userPub)
  /\ profilesCache' = [v \in (DOMAIN profilesCache) \cup {userPub} |->
                         IF v = userPub THEN FetchedProfile(store, userPub)
                         ELSE profilesCache[v]]
  /\ resolved' = resolved \cup {userPub}
  /\ ret' = [SideRet("getUserProfile", "store") EXCEPT
               !.key = userPub, !.profile = FetchedProfile(store, userPub)]
  /\ UNCHANGED <<now, sea, quota, auth, store, pubVars, delVars, sides, likes,
                 currentUserFollowing, listVars, puts, acks, subVars>>

\* SocialNetwork.clearProfilesCache()
ClearProfilesCache ==
  /\ Idle
  /\ profilesCache' = [u \in {} |-> NoProfile]
  /\ resolved' = {}
  /\ ret' = SideRet("clearProfilesCache", "ok")
  /\ UNCHANGED <<now, sea, quota, auth, store, pubVars, delVars, sides, likes,
                 currentUserFollowing, listVars, puts, acks, profReads, subVars>>

(***************************************************************************)
(* gunPut(chain, data, timeout) of gunHelpers: the promise around put, its  *)
(* timer and the ack callback.                                             *)
(***************************************************************************)
\* One call: the flag `resolved` of the closure, whether the timer of
\* setTimeout is pending (timeoutId), whether the store holds the ack
\* callback (cb), how often the store has invoked it (acks), and every
\* invocation of resolve or reject as <<cause, "resolve" | "reject">>.
NewPut == [resolved |-> FALSE, timeoutId |-> TRUE, cb |-> TRUE, acks |-> 0, settles |-> <<>>]

\* A closure whose flag is never seen set.
IsResolvedNever(p) == FALSE

\* if (resolved) return; and if (!resolved) of the timer
IsResolved(p) == p.resolved

\* (ack) => { if (resolved) return; resolved = true; clearTimeout(timeoutId);
\*            if (ack?.err) reject(...) else resolve() }
AckCallback(p, err) ==
  IF IsResolved(p) THEN [p EXCEPT !.acks = @ + 1]
  ELSE [p EXCEPT !.acks = @ + 1, !.resolved = TRUE, !.timeoutId = FALSE,
                 !.settles = Append(@, IF err THEN <<"ackerr", "reject">>
                                       ELSE <<"ack", "resolve">>)]

\* catch (err) { if (resolved) return; resolved = true;
\*               clearTimeout(timeoutId); reject(err) }
CatchBlock(p) ==
  IF IsResolved(p) THEN p
  ELSE [p EXCEPT !.resolved = TRUE, !.timeoutId = FALSE,
                 !.settles = Append(@, <<"throw", "reject">>)]

\* The call up to the return of the promise: the timer is set, then put is
\* called; put may invoke the callback before it returns (sync), and it
\* returns or throws, having kept the callback or not.
GunPut(sync, throws, kept) ==
  /\ Idle
  /\ Len(puts) < MaxPuts
  /\ LET called == IF sync = "none" THEN NewPut ELSE AckCallback(NewPut, sync = "ackerr")
     IN puts' = Append(puts,
          IF throws THEN [CatchBlock(called) EXCEPT !.cb = kept] ELSE called)
  /\ ret' = NoRet
  /\ UNCHANGED <<now, sea, quota, auth, store, pubVars, delVars, sides, likes,
                 profilesCache, currentUserFollowing, listVars, acks, profReads,
                 resolved, subVars>>

\* The store invokes the ack callback of put i, with or without ack.err.
PutAck(i, err) ==
  /\ Idle
  /\ i \in DOMAIN puts
  /\ puts[i].cb /\ puts[i].acks < MaxAcks
  /\ puts' = [puts EXCEPT ![i] = AckCallback(@, err)]
  /\ ret' = NoRet
  /\ UNCHANGED <<now, sea, quota, auth, store, pubVars, delVars, sides, likes,
                 profilesCache, currentUserFollowing, listVars, acks, profReads,
                 resolved, subVars>>

\* The timer of put i elapses.
PutTimeout(i) ==
  /\ Idle
  /\ i \in DOMAIN puts
  /\ puts[i].timeoutId
  /\ puts' = [puts EXCEPT ![i] =
       IF IsResolved(@) THEN [@ EXCEPT !.timeoutId = FALSE]
       ELSE [@ EXCEPT !.timeoutId = FALSE, !.resolved = TRUE,
                      !.settles = Append(@, <<"timeout", "resolve">>)]]
  /\ ret' = NoRet
  /\ UNCHANGED <<now, sea, quota, auth, store, pubVars, delVars, sides, likes,
                 profilesCache, currentUserFollowing, listVars, acks, profReads,
                 resolved, subVars>>

(***************************************************************************)
(* Subscriptions: viewGlobalTimeline, viewFollowingTimeline, getTagPosts    *)
(* (viewHashtag), getUserPosts, and the callbacks useSocialProtocol gives   *)
(* them.                                                                    *)
(***************************************************************************)
NoSub == [kind |-> "none", today |-> 0, tag |-> <<>>, user |-> NoUser,
          following |-> {}, parent |-> 0, viaHook |-> FALSE]

\* updateTimerRef.current: no timer, or the timer of debouncedUpdatePosts with
\* the posts it will set.
NoTimer == <<"none">>

\* debouncedUpdatePosts(newPosts): clearTimeout of the pending timer, setTimeout.
Debounce(newPosts) == <<"set", newPosts>>

\* The cleanup of viewFollowingTimeline of the hook also clears its loading
\* timeout.
LoadingTimeout == <<"loadingTimeout">>

\* The listener on the index root, and the listeners that the callbacks of
\* useSocialProtocol attach to posts/{id}/likes and posts/{id}/reposts.
IndexListener == <<"index">>

PostListeners(id) == {<<"likes", id>>, <<"reposts", id>>}

\* viewGlobalTimeline and viewFollowingTimeline of the hook attach them.
PerPostListeners(s, id) ==
  IF s.kind \in {"timeline", "following"} THEN PostListeners(id) ELSE {}

\* Only viewGlobalTimeline of the hook stores their cleanups in listenersRef.
TrackedListeners(s, id) ==
  IF s.kind = "timeline" THEN PostListeners(id) ELSE {}

\* What the function returned by SocialNetwork detaches: map().off() on the
\* index root, or nothing for an empty followingList.
CancelFn(s) == IF s.kind \in {"none", "empty"} THEN {} ELSE {IndexListener}

\* The paths under the index root that the subscription listens to.
SubPaths(st, s) ==
  IF s.kind \in {"timeline", "following"}
  THEN {p \in DOMAIN st : p[1] = "timeline" /\ p[2] = s.today}
  ELSE IF s.kind = "tag"
  THEN {p \in DOMAIN st : p[1] = "hashtags" /\ Len(p) = 4 /\ p[2] = s.tag}
  ELSE IF s.kind \in {"user", "loadPosts"}
  THEN {p \in DOMAIN st : p[1] = "users" /\ p[2] = s.user /\ p[3] = "posts"}
  ELSE IF s.kind = "replies"
  THEN {p \in DOMAIN st : p[1] = "posts" /\ Len(p) = 4 /\ p[2] = s.parent
                          /\ p[3] = "replies"}
  ELSE {}

\* The read that the listener starts for a child of the index root: the id
\* of the post and the soul to read; NoSoul is a soul still to be looked up in
\* #posts; no read at all is <<>>.
\* viewGlobalTimeline and viewFollowingTimeline: postSoul is a string.
TimelineRead(v, key) ==
  IF IsSoulVal(v) THEN <<[id |-> key, soul |-> v[2]]>> ELSE <<>>

\* getTagPosts: postEntry.hash, else the key when key.length > 20.
TagRead(v, key) ==
  IF ReplyHashOf(v, key) # 0 THEN <<[id |-> ReplyHashOf(v, key), soul |-> NoSoul]>> ELSE <<>>

\* getUserPosts: postEntry.soul || hash
UserRead(v, key) ==
  IF v[1] = "entry"
  THEN <<[id |-> key, soul |-> IF v[2] # NoSoul THEN v[2] ELSE key]>>
  ELSE <<>>

ListenerRead(s, v, key) ==
  IF s.kind \in {"timeline", "following"} THEN TimelineRead(v, key)
  ELSE IF s.kind = "tag" THEN TagRead(v, key)
  ELSE UserRead(v, key)

\* SocialNetwork.viewGlobalTimeline(callback)
ViewGlobalTimeline(hook) ==
  /\ Idle
  /\ sub = NoSub
  /\ sub' = [NoSub EXCEPT !.kind = "timeline", !.today = DayOf(now), !.viaHook = hook]
  /\ registered' = CancelFn(sub')
  /\ listenersRef' = IF hook THEN CancelFn(sub') ELSE {}
  /\ loading' = IF hook THEN TRUE ELSE loading
  /\ ret' = NoRet
  /\ UNCHANGED <<now, sea, quota, auth, store, pubVars, delVars, sideVars, delivs, reads,
                 lookups, emitted, processedPosts, postsMap, emittedData, cancels, posts,
                 updateTimer, loadingTimer, lagging>>

\* SocialNetwork.viewFollowingTimeline(followingList, callback)
ViewFollowingTimeline(followingList, hook) ==
  /\ Idle
  /\ sub = NoSub
  /\ sub' = IF followingList = {}
            THEN [NoSub EXCEPT !.kind = "empty", !.viaHook = hook]
            ELSE [NoSub EXCEPT !.kind = "following", !.today = DayOf(now),
                               !.following = followingList, !.viaHook = hook]
  /\ registered' = CancelFn(sub')
  /\ listenersRef' = IF hook THEN CancelFn(sub') \cup {LoadingTimeout} ELSE {}
  /\ loading' = IF hook THEN TRUE ELSE loading
  /\ loadingTimer' = IF hook THEN TRUE ELSE loadingTimer
  /\ ret' = NoRet
  /\ UNCHANGED <<now, sea, quota, auth, store, pubVars, delVars, sideVars, delivs, reads,
                 lookups, emitted, processedPosts, postsMap, emittedData, cancels, posts,
                 updateTimer, lagging>>

\* SocialNetwork.getTagPosts(tagSlug, callback), also reached by viewHashtag.
GetTagPosts(tagSlug, hook) ==
  /\ Idle
  /\ sub = NoSub
  /\ sub' = [NoSub EXCEPT !.kind = "tag", !.tag = CleanTag(tagSlug), !.viaHook = hook]
  /\ registered' = CancelFn(sub')
  /\ listenersRef' = IF hook THEN CancelFn(sub') ELSE {}
  /\ loading' = IF hook THEN TRUE ELSE loading
  /\ ret' = NoRet
  /\ UNCHANGED <<now, sea, quota, auth, store, pubVars, delVars, sideVars, delivs, reads,
                 lookups, emitted, processedPosts, postsMap, emittedData, cancels, posts,
                 updateTimer, loadingTimer, lagging>>

\* SocialNetwork.getUserPosts(userPub, callback)
GetUserPosts(userPub) ==
  /\ Idle
  /\ sub = NoSub
  /\ sub' = [NoSub EXCEPT !.kind = "user", !.user = userPub]
  /\ registered' = CancelFn(sub')
  /\ ret' = NoRet
  /\ UNCHANGED <<now, sea, quota, auth, store, pubVars, delVars, sideVars, delivs, reads,
                 lookups, emitted, processedPosts, postsMap, emittedData, listenersRef,
                 cancels, loading, posts, updateTimer, loadingTimer, lagging>>

\* SocialNetwork.viewReplies(postId, callback)
ViewReplies(postId) ==
  /\ Idle
  /\ sub = NoSub
  /\ sub' = [NoSub EXCEPT !.kind = "replies", !.parent = postId]
  /\ registered' = CancelFn(sub')
  /\ ret' = NoRet
  /\ UNCHANGED <<now, sea, quota, auth, store, pubVars, delVars, sideVars, delivs, reads,
                 lookups, emitted, processedPosts, postsMap, emittedData, listenersRef,
                 cancels, loading, posts, updateTimer, loadingTimer, lagging>>

\* The callback of the subscriber: the caller's own, or the one of
\* useSocialProtocol, which drops a post without id or with an id it has
\* processed, and attaches the likes and reposts listeners of the post.
Callback(post) ==
  /\ emitted' = [h \in (DOMAIN emitted) \cup {post.id} |->
                   (IF h \in DOMAIN emitted THEN emitted[h] ELSE 0)
                   + (IF h = post.id THEN 1 ELSE 0)]
  /\ emittedData' = emittedData \cup {post}
  /\ IF sub.viaHook /\ post.id # 0 /\ post.id \notin processedPosts
     THEN /\ processedPosts' = processedPosts \cup {post.id}
          /\ postsMap' = postsMap \cup {post.id}
          /\ registered' = registered \cup PerPostListeners(sub, post.id)
          /\ listenersRef' = listenersRef \cup TrackedListeners(sub, post.id)
          /\ updateTimer' = Debounce(postsMap')
     ELSE UNCHANGED <<processedPosts, postsMap, registered, listenersRef, updateTimer>>
  /\ loadingTimer' = IF sub.viaHook /\ sub.kind = "following" THEN FALSE ELSE loadingTimer

\* getPostWithAuthor(postData, callback): the cached profile, or a read of the
\* author's profile.
GetPostWithAuthor(post) ==
  IF CacheHit(profilesCache, post.author)
  THEN Callback(post) /\ UNCHANGED lookups
  ELSE /\ lookups' = BagAdd(lookups, post)
       /\ UNCHANGED <<emitted, processedPosts, postsMap, emittedData, registered,
                      listenersRef, updateTimer,
                      loadingTimer>>

\* What getPostWithAuthor makes of a child of posts/{id}/replies: the entry
\* {hash, timestamp} has no id, no text and no author; the post node has an
\* author field that holds a link.
ReplyPost(v) ==
  [id |-> 0, text |-> <<>>, author |-> IF v[1] = "node" THEN "link" ELSE NoUser]

\* map().on hands a child of the index root to the listener, for the first
\* time or again.
Deliver(p) ==
  /\ Idle
  /\ IndexListener \in registered
  /\ p \in SubPaths(store, sub)
  /\ delivs < MaxDeliver
  /\ delivs' = delivs + 1
  /\ IF sub.kind = "replies"
     THEN /\ IF Truthy(store[p])
             THEN GetPostWithAuthor(ReplyPost(store[p]))
             ELSE UNCHANGED <<lookups, emitted, processedPosts, postsMap, emittedData,
                              registered, listenersRef, updateTimer,
                      loadingTimer>>
          /\ UNCHANGED reads
     ELSE /\ LET r == ListenerRead(sub, store[p], p[Len(p)])
             IN reads' = IF r = <<>> THEN reads ELSE BagAdd(reads, r[1])
          /\ UNCHANGED <<lookups, emitted, processedPosts, postsMap, emittedData,
                         registered, listenersRef, updateTimer, loadingTimer>>
  /\ ret' = NoRet
  /\ UNCHANGED <<now, sea, quota, auth, store, pubVars, delVars, sideVars, sub, cancels,
                 loading, posts, lagging>>

\* The post that the reads of the listener yield: the content behind the
\* soul, or behind #posts/{id} for getTagPosts.
SoulToRead(st, e) ==
  IF e.soul # NoSoul THEN e.soul
  ELSE IF IsSoulVal(Get(st, HashTablePath(e.id))) THEN Get(st, HashTablePath(e.id))[2]
  ELSE NoSoul

\* A following timeline that lets every author through.
EmitsAnyAuthor(s, data) ==
  /\ data.kind # "none"
  /\ data.text # <<>>

\* if (postPayload.text), and for the following timeline followingSet.has(authorPub)
Emits(s, data) ==
  /\ data.kind # "none"
  /\ data.text # <<>>
  /\ s.kind = "following" => data.authorPub \in s.following

\* authorPub of the payload: cleanPostData.authorPub || '' (getUserPosts: || userPub)
PayloadAuthor(s, data) ==
  IF data.authorPub # NoUser THEN data.authorPub
  ELSE IF s.kind = "user" THEN s.user ELSE NoUser

\* What once() hands over for a content node that has not wholly reached this
\* peer: undefined while nothing of it has, the node without its text while
\* the text has not.
ReadReplica(c, lag, soul) ==
  IF soul \notin DOMAIN lag THEN ReadNode(c, soul)
  ELSE IF lag[soul] = "all" THEN NoData
  ELSE [ReadNode(c, soul) EXCEPT !.text = <<>>]

\* gun.get(postSoul).once(postData => ...), then getPostWithAuthor.
ContentRead(e) ==
  /\ Idle
  /\ e \in DOMAIN reads
  /\ reads' = BagDel(reads, e)
  /\ LET soul == SoulToRead(store, e)
         data == IF soul = NoSoul THEN NoData ELSE ReadReplica(content, lagging, soul)
         author == PayloadAuthor(sub, data)
     IN IF ~Emits(sub, data)
        THEN UNCHANGED <<lookups, emitted, processedPosts, postsMap, emittedData,
                         registered, listenersRef, updateTimer, loadingTimer>>
        ELSE GetPostWithAuthor([id |-> e.id, text |-> data.text, author |-> author])
  /\ ret' = NoRet
  /\ UNCHANGED <<now, sea, quota, auth, store, pubVars, delVars, sideVars, sub, delivs,
                 cancels, loading, posts, lagging>>

\* gun.user(authorPub).get('profile').once(profile => ...)
ProfileRead(e) ==
  /\ Idle
  /\ e \in DOMAIN lookups
  /\ lookups' = BagDel(lookups, e)
  /\ profilesCache' =
       [u \in (DOMAIN profilesCache) \cup {e.author} |->
          IF u = e.author
          THEN FetchedProfile(store, u)
          ELSE profilesCache[u]]
  /\ Callback(e)
  /\ ret' = NoRet
  /\ resolved' = resolved \cup {e.author}
  /\ UNCHANGED <<now, sea, quota, auth, store, pubVars, delVars, sides, likes,
                 currentUserFollowing, listVars, puts, acks, profReads, sub, delivs, reads, cancels,
                 loading, posts, lagging>>

\* A second detach that attaches the listeners again.
DetachToggle(reg, ls) == (reg \ ls) \cup (ls \ reg)

\* off() on the chain of a listener: try { ... .map().off() } catch (e) { ... }
Detach(reg, ls) == reg \ ls

CancelRet ==
  [op |-> "cancel", res |-> "ok", soul |-> NoSoul, by |-> NoUser, issued |-> {},
   key |-> NoUser, profile |-> <<>>]

\* The cancel function of the subscription: the function SocialNetwork
\* returned, or clearTimeline of useSocialProtocol, which runs the cleanups in
\* listenersRef and clears listenersRef and processedPostsRef.
Cancel ==
  /\ Idle
  /\ sub # NoSub
  /\ cancels < MaxCancel
  /\ cancels' = cancels + 1
  /\ IF sub.viaHook
     THEN /\ registered' = Detach(registered, listenersRef)
          /\ loadingTimer' = IF LoadingTimeout \in listenersRef THEN FALSE
                             ELSE loadingTimer
          /\ listenersRef' = {}
          /\ processedPosts' = {}
          /\ posts' = {}
     ELSE /\ registered' = Detach(registered, CancelFn(sub))
          /\ UNCHANGED <<listenersRef, processedPosts, posts, loadingTimer>>
  /\ ret' = CancelRet
  /\ UNCHANGED <<now, sea, quota, auth, store, pubVars, delVars, sideVars, sub, delivs,
                 reads, lookups, emitted, postsMap, emittedData, loading, updateTimer,
                 lagging>>

\* The subscription that a view of the hook opens.
HookSub(kind, today) ==
  IF kind = "timeline"
  THEN [NoSub EXCEPT !.kind = "timeline", !.today = today, !.viaHook = TRUE]
  ELSE IF kind = "following"
  THEN [NoSub EXCEPT !.kind = "following", !.today = today, !.following = {"U"},
                     !.viaHook = TRUE]
  ELSE [NoSub EXCEPT !.kind = "tag", !.tag = CleanTag(<<"#", "W">>), !.viaHook = TRUE]

\* viewGlobalTimeline, viewFollowingTimeline(['U']) or viewHashtag('#W') of
\* the hook while a view is open: the cleanups in listenersRef are run,
\* listenersRef and processedPostsRef are cleared, and the new view starts
\* with a postsMap of its own. The model follows the reads of one
\* subscription at a time: the view is started when no read of the previous
\* one is pending.
SwitchView(kind) ==
  /\ Idle
  /\ sub # NoSub
  /\ sub.viaHook
  /\ reads = EmptyBag
  /\ lookups = EmptyBag
  /\ cancels < MaxCancel
  /\ cancels' = cancels + 1
  /\ sub' = HookSub(kind, DayOf(now))
  /\ registered' = Detach(registered, listenersRef) \cup CancelFn(sub')
  /\ listenersRef' = CancelFn(sub')
                     \cup (IF kind = "following" THEN {LoadingTimeout} ELSE {})
  /\ processedPosts' = {}
  /\ postsMap' = {}
  /\ loading' = TRUE
  /\ loadingTimer' = IF kind = "following" THEN TRUE
                     ELSE IF LoadingTimeout \in listenersRef THEN FALSE
                     ELSE loadingTimer
  /\ ret' = NoRet
  /\ UNCHANGED <<now, sea, quota, auth, store, pubVars, delVars, sideVars, delivs, reads,
                 lookups, emitted, emittedData, posts, updateTimer, lagging>>

\* The timer of debouncedUpdatePosts elapses: setPosts(...), setLoading(false).
UpdateTimerFires ==
  /\ Idle
  /\ updateTimer # NoTimer
  /\ posts' = updateTimer[2]
  /\ loading' = FALSE
  /\ updateTimer' = NoTimer
  /\ ret' = NoRet
  /\ UNCHANGED <<now, sea, quota, auth, store, pubVars, delVars, sideVars, sub, delivs,
                 reads, lookups, emitted, processedPosts, postsMap, emittedData,
                 registered, listenersRef, cancels, loadingTimer, lagging>>

\* The loading timeout of viewFollowingTimeline of the hook elapses:
\* if (postsMap.size === 0) { setLoading(false); debouncedUpdatePosts([]) }
LoadingTimeoutFires ==
  /\ Idle
  /\ loadingTimer
  /\ loadingTimer' = FALSE
  /\ IF postsMap = {}
     THEN loading' = FALSE /\ updateTimer' = Debounce({})
     ELSE UNCHANGED <<loading, updateTimer>>
  /\ ret' = NoRet
  /\ UNCHANGED <<now, sea, quota, auth, store, pubVars, delVars, sideVars, sub, delivs,
                 reads, lookups, emitted, processedPosts, postsMap, emittedData,
                 registered, listenersRef, cancels, posts, lagging>>

(***************************************************************************)
(* useUserPosts: loadPosts keeps the posts of one user's index in postsMap *)
(* and the ids it has started to resolve in processedPosts.                *)
(***************************************************************************)
\* loadPosts(): setLoading(true), the listener on users/{userPub}/posts, and
\* the timeout that ends loading.
LoadPosts(userPub) ==
  /\ Idle
  /\ sub = NoSub
  /\ sub' = [NoSub EXCEPT !.kind = "loadPosts", !.user = userPub, !.viaHook = TRUE]
  /\ registered' = CancelFn(sub')
  /\ loading' = TRUE
  /\ loadingTimer' = TRUE
  /\ ret' = NoRet
  /\ UNCHANGED <<now, sea, quota, auth, store, pubVars, delVars, sideVars, delivs, reads,
                 lookups, emitted, processedPosts, postsMap, emittedData, listenersRef,
                 cancels, posts, updateTimer, lagging>>

\* const postSoul = data.soul || hash
EntryRead(data, hash) ==
  [id |-> hash, soul |-> IF data[2] # NoSoul THEN data[2] ELSE hash,
   reposted |-> data[5] = "true"]

\* userPostsNode.map().on((data, hash) => ...): an entry whose id is in
\* processedPosts or in postsMap is skipped; else the id is added to
\* processedPosts and the content node is read. The listener for updates that
\* is attached to the content node returns at once for every node that has
\* its metadata under _, which is every node: it changes nothing.
LoadPostsListener(p) ==
  /\ Idle
  /\ sub.kind = "loadPosts"
  /\ IndexListener \in registered
  /\ p \in SubPaths(store, sub)
  /\ delivs < MaxDeliver
  /\ delivs' = delivs + 1
  /\ LET hash == p[Len(p)]
         data == store[p]
     IN IF hash \in processedPosts \/ data[1] # "entry" \/ hash \in postsMap
        THEN UNCHANGED <<processedPosts, reads>>
        ELSE /\ processedPosts' = processedPosts \cup {hash}
             /\ reads' = BagAdd(reads, EntryRead(data, hash))
  /\ ret' = NoRet
  /\ UNCHANGED <<now, sea, quota, auth, store, pubVars, delVars, sideVars, sub, lookups,
                 emitted, postsMap, emittedData, registered, listenersRef, cancels,
                 loading, posts, updateTimer, loadingTimer, lagging>>

\* gun.get(postSoul).once(postData => ...): no node, the id leaves
\* processedPosts; author and text, the post enters postsMap when it is the
\* user's own or a repost, else the id leaves processedPosts; a node without
\* text, nothing.
LoadPostsRead(e) ==
  /\ Idle
  /\ sub.kind = "loadPosts"
  /\ e \in DOMAIN reads
  /\ reads' = BagDel(reads, e)
  /\ LET postData == ReadReplica(content, lagging, e.soul)
         postAuthor == IF postData.authorPub # NoUser THEN postData.authorPub
                       ELSE sub.user
     IN IF e.id \in postsMap
        THEN UNCHANGED <<processedPosts, postsMap, posts, loading, emitted>>
        ELSE IF postData.kind = "none"
        THEN /\ processedPosts' = processedPosts \ {e.id}
             /\ UNCHANGED <<postsMap, posts, loading, emitted>>
        ELSE IF postData.text = <<>>
        THEN UNCHANGED <<processedPosts, postsMap, posts, loading, emitted>>
        ELSE IF postAuthor = sub.user \/ e.reposted
        THEN /\ postsMap' = postsMap \cup {e.id}
             /\ posts' = postsMap'
             /\ loading' = FALSE
             /\ emitted' = [h \in (DOMAIN emitted) \cup {e.id} |->
                              (IF h \in DOMAIN emitted THEN emitted[h] ELSE 0)
                              + (IF h = e.id THEN 1 ELSE 0)]
             /\ UNCHANGED processedPosts
        ELSE /\ processedPosts' = processedPosts \ {e.id}
             /\ UNCHANGED <<postsMap, posts, loading, emitted>>
  /\ ret' = NoRet
  /\ UNCHANGED <<now, sea, quota, auth, store, pubVars, delVars, sideVars, sub, delivs,
                 lookups, emittedData, registered, listenersRef, cancels, updateTimer,
                 loadingTimer, lagging>>

\* The timeout of loadPosts elapses: setLoading(false).
LoadPostsTimeoutFires ==
  /\ Idle
  /\ sub.kind = "loadPosts"
  /\ loadingTimer
  /\ loadingTimer' = FALSE
  /\ loading' = FALSE
  /\ ret' = NoRet
  /\ UNCHANGED <<now, sea, quota, auth, store, pubVars, delVars, sideVars, sub, delivs,
                 reads, lookups, emitted, processedPosts, postsMap, emittedData,
                 registered, listenersRef, cancels, posts, updateTimer, lagging>>

\* More of a content node that publishPost wrote on another peer reaches this
\* peer: all of it, or all but the text.
Sync(soul, whole) ==
  /\ Idle
  /\ soul \in DOMAIN lagging
  /\ whole \/ lagging[soul] = "all"
  /\ lagging' = IF whole THEN [s \in (DOMAIN lagging) \ {soul} |-> lagging[s]]
                ELSE [lagging EXCEPT ![soul] = "text"]
  /\ ret' = NoRet
  /\ UNCHANGED <<now, sea, quota, auth, content, store, refires, pubRes, run, delVars,
                 sideVars, sub, delivs, reads, lookups, emitted, processedPosts,
                 postsMap, emittedData, registered, listenersRef, cancels, loading,
                 posts, updateTimer, loadingTimer>>

\* The entry of #posts that publishPost wrote on another peer reaches this peer.
EntrySync(soul) ==
  /\ Idle
  /\ soul \in DOMAIN content
  /\ HashTablePath(Hash(soul)) \notin DOMAIN store
  /\ store' = Put(store, HashTablePath(Hash(soul)), <<"soul", soul>>)
  /\ ret' = NoRet
  /\ UNCHANGED <<now, sea, quota, auth, content, refires, pubRes, run, delVars, sideVars,
                 subVars>>

(***************************************************************************)
(* Environment: the clock, and the session of the signed-in user.          *)
(***************************************************************************)
Tick ==
  /\ Idle
  /\ now < MaxTime
  /\ now' = now + 1
  /\ ret' = NoRet
  /\ UNCHANGED <<sea, quota, auth, store, pubVars, delVars, sideVars, subVars>>

Login(u) ==
  /\ Idle
  /\ auth # u
  /\ auth' = u
  /\ ret' = NoRet
  /\ UNCHANGED <<now, sea, quota, store, pubVars, delVars, sideVars, subVars>>

Logout ==
  /\ Idle
  /\ auth # NoUser
  /\ auth' = NoUser
  /\ ret' = NoRet
  /\ UNCHANGED <<now, sea, quota, store, pubVars, delVars, sideVars, subVars>>

\* The calls a behaviour of the full model holds.
FullQuota == [dels |-> MaxDeletes, sides |-> MaxSide, likes |-> MaxLikes]

\* The state after construction, before any call, under the session a.
FreshOf(a) ==
  /\ now = 1
  /\ sea \in {"ok", "missing", "throws"}
  /\ auth = a
  /\ content = [s \in {} |-> 0]
  /\ store = EmptyStore
  /\ refires = 0
  /\ pubRes = [s \in {} |-> "pending"]
  /\ run = NoRun
  /\ del = NoDel
  /\ dels = 0
  /\ casc = {}
  /\ cascPend = {}
  /\ sides = 0
  /\ likes = 0
  /\ profilesCache = [u \in {} |-> NoProfile]
  /\ currentUserFollowing = {}
  /\ following = {} /\ followers = {} /\ followingSet = {} /\ followersSet = {}
  /\ puts = <<>>
  /\ acks = EmptyBag
  /\ profReads = EmptyBag
  /\ resolved = {}
  /\ sub = NoSub
  /\ delivs = 0
  /\ reads = EmptyBag
  /\ lookups = EmptyBag
  /\ emitted = [h \in {} |-> 0]
  /\ processedPosts = {}
  /\ postsMap = {}
  /\ emittedData = {}
  /\ registered = {}
  /\ listenersRef = {}
  /\ cancels = 0
  /\ loading = FALSE
  /\ posts = {}
  /\ updateTimer = NoTimer
  /\ loadingTimer = FALSE
  /\ lagging = [s \in {} |-> "none"]
  /\ ret = NoRet

Fresh == FreshOf(NoUser)

Init == quota = FullQuota /\ Fresh

\* publishPost with the block of writes of its listener taken write by write.
NextPub ==
  \/ \E t \in Texts, r \in {NoReply} \cup KnownHashes : PublishPost(t, r)
  \/ \E s \in Souls : ListenerFires(s)
  \/ PublishWrite
  \/ PublishResolve
  \/ Tick
  \/ \E u \in Users : Login(u)
  \/ Logout

SpecPub == Init /\ [][NextPub]_vars

\* publishPost and deletePost, each synchronous block one step.
NextDel ==
  \/ \E t \in Texts, r \in {NoReply} \cup KnownHashes : PublishPost(t, r)
  \/ \E s \in Souls : ListenerRuns(s)
  \/ \E h \in {Hash(s) : s \in Souls} : DeletePost(h)
  \/ DeleteResolve
  \/ DeleteRemove
  \/ DeleteReturn
  \/ \E l \in casc : \E k \in ReplyKeys(store, l.parent) : CascadeDeliver(l, k)
  \/ \E h \in cascPend : CascadeResolve(h)
  \/ Tick
  \/ \E u \in Users : Login(u)
  \/ Logout

SpecDel == Init /\ [][NextDel]_vars

\* Every operation on the store.  A behaviour holds deletePost calls or calls
\* of the interaction hooks, and its posts carry a hashtag.
Next ==
  \/ \E r \in {NoReply} \cup KnownHashes : PublishPost(TextTagged, r)
  \/ \E s \in Souls : ListenerRuns(s)
  \/ \E h \in {Hash(s) : s \in Souls} : DeletePost(h)
  \/ DeleteResolve
  \/ DeleteRemove
  \/ DeleteReturn
  \/ \E l \in casc : \E k \in ReplyKeys(store, l.parent) : CascadeDeliver(l, k)
  \/ \E h \in cascPend : CascadeResolve(h)
  \/ \E u \in Users : Follow(u)
  \/ \E u \in Users : Unfollow(u)
  \/ \E h \in KnownHashes : LikePost(h)
  \/ \E h \in KnownHashes : Repost(h)
  \/ \E h \in KnownHashes : Unrepost(h)
  \/ \E p \in Partials : UpdateProfile(p)
  \/ \E p \in DOMAIN acks, err \in BOOLEAN : ProfileAck(p, err)
  \/ Tick
  \/ \E u \in Users : Login(u)
  \/ Logout

Spec == Init /\ [][Next]_vars

\* Subscriptions on the indices that publishPost fills.
NextSub ==
  \/ \E t \in Texts : PublishPost(t, NoReply)
  \/ \E s \in Souls : ListenerRuns(s)
  \/ \E hook \in BOOLEAN : ViewGlobalTimeline(hook)
  \/ \E l \in {{}, {"U"}}, hook \in BOOLEAN : ViewFollowingTimeline(l, hook)
  \/ \E hook \in BOOLEAN : GetTagPosts(<<"#", "W">>, hook)
  \/ \E u \in Users : GetUserPosts(u)
  \/ \E p \in SubPaths(store, sub) : Deliver(p)
  \/ \E e \in DOMAIN reads : ContentRead(e)
  \/ \E e \in DOMAIN lookups : ProfileRead(e)
  \/ Tick
  \/ \E u \in Users : Login(u)
  \/ Logout

SpecSub == Init /\ [][NextSub]_vars

\* Subscriptions, among them viewReplies, and their cancel functions.
NextView ==
  \/ \E r \in {NoReply} \cup KnownHashes : PublishPost(TextPlain, r)
  \/ \E s \in Souls : ListenerRuns(s)
  \/ \E hook \in BOOLEAN : ViewGlobalTimeline(hook)
  \/ \E hook \in BOOLEAN : ViewFollowingTimeline({"U"}, hook)
  \/ \E h \in KnownHashes : ViewReplies(h)
  \/ \E p \in SubPaths(store, sub) : Deliver(p)
  \/ \E e \in DOMAIN reads : ContentRead(e)
  \/ \E e \in DOMAIN lookups : ProfileRead(e)
  \/ Cancel
  \/ \E u \in Users : Login(u)
  \/ Logout

SpecView == Init /\ [][NextView]_vars

\* publishPost and deletePost within one instant, with one more deletePost call.
InitRedel ==
  /\ quota = [dels |-> MaxDeletes + 1, sides |-> 0, likes |-> 0]
  /\ Fresh

NextRedel ==
  \/ \E r \in {NoReply} \cup KnownHashes : PublishPost(TextTagged, r)
  \/ \E s \in Souls : ListenerRuns(s)
  \/ \E h \in {Hash(s) : s \in Souls} : DeletePost(h)
  \/ DeleteResolve
  \/ DeleteRemove
  \/ DeleteReturn
  \/ \E l \in casc : \E k \in ReplyKeys(store, l.parent) : CascadeDeliver(l, k)
  \/ \E h \in cascPend : CascadeResolve(h)
  \/ \E u \in Users : Login(u)
  \/ Logout

SpecRedel == InitRedel /\ [][NextRedel]_vars

\* Sequences of follow and unfollow calls.
InitFollow ==
  /\ quota = [dels |-> 0, sides |-> MaxFollows, likes |-> 0]
  /\ Fresh

NextFollow ==
  \/ \E u \in Users : Follow(u)
  \/ \E u \in Users : Unfollow(u)
  \/ Tick
  \/ \E u \in Users : Login(u)
  \/ Logout

SpecFollow == InitFollow /\ [][NextFollow]_vars

\* useFollow mounted on the profile of TargetUserPub under one session:
\* follow and unfollow calls, and the deliveries to the two list listeners.
InitLists ==
  /\ quota = [dels |-> 0, sides |-> MaxFollows, likes |-> 0]
  /\ \E u \in Users : FreshOf(u)

NextLists ==
  \/ \E u \in Users : Follow(u)
  \/ \E u \in Users : Unfollow(u)
  \/ \E k \in Users : LoadFollowingListener(k)
  \/ \E k \in Users : LoadFollowersListener(k)
  \/ Tick

SpecLists == InitLists /\ [][NextLists]_vars

\* SocialNetwork.viewFollowingTimeline over every followingList of known
\* users, the empty one included, with posts of both users and the cancel
\* function.
NextFollowing ==
  \/ \E t \in Texts : PublishPost(t, NoReply)
  \/ \E s \in Souls : ListenerRuns(s)
  \/ \E l \in SUBSET Users : ViewFollowingTimeline(l, FALSE)
  \/ \E p \in SubPaths(store, sub) : Deliver(p)
  \/ \E e \in DOMAIN reads : ContentRead(e)
  \/ \E e \in DOMAIN lookups : ProfileRead(e)
  \/ Cancel
  \/ \E u \in Users : Login(u)
  \/ Logout

SpecFollowing == Init /\ [][NextFollowing]_vars

\* gunPut calls with every order of their acks and timers.
InitPut ==
  /\ quota = [dels |-> 0, sides |-> 0, likes |-> 0]
  /\ Fresh

NextPut ==
  \/ \E sync \in {"none", "ack", "ackerr"}, throws \in BOOLEAN, kept \in BOOLEAN :
       GunPut(sync, throws, kept)
  \/ \E i \in 1..MaxPuts, err \in BOOLEAN : PutAck(i, err)
  \/ \E i \in 1..MaxPuts : PutTimeout(i)

SpecPut == InitPut /\ [][NextPut]_vars

\* publishPost of one post, over every text of at most MaxTextLen characters.
TagChars == {"#", " ", "w", "W"}

TagTexts == UNION {[1..n -> TagChars] : n \in 0..MaxTextLen}

InitTags ==
  /\ quota = [dels |-> 0, sides |-> 0, likes |-> 0]
  /\ Fresh

NextTags ==
  \/ \E t \in TagTexts : DOMAIN content = {} /\ PublishPost(t, NoReply)
  \/ \E s \in Souls : ListenerRuns(s)
  \/ \E u \in Users : Login(u)
  \/ Logout

SpecTags == InitTags /\ [][NextTags]_vars

\* The profile operations of SocialNetwork and the cache behind them.
ProfilePartials == {<<"profile", "a", "">>, <<"profile", "", "b">>}

InitProfile ==
  /\ quota = [dels |-> 0, sides |-> MaxProfileCalls, likes |-> 0]
  /\ Fresh

NextProfile ==
  \/ \E p \in ProfilePartials : UpdateProfile(p)
  \/ \E p \in DOMAIN acks, err \in BOOLEAN : ProfileAck(p, err)
  \/ \E u \in Users : GetUserProfile(u)
  \/ \E u \in DOMAIN profReads : ProfileFetch(u)
  \/ ClearProfilesCache
  \/ \E u \in Users : Login(u)
  \/ Logout

SpecProfile == InitProfile /\ [][NextProfile]_vars

\* The views of useSocialProtocol with their timers.  A timer that is set
\* and not cleared elapses.
NextLoad ==
  \/ PublishPost(TextTagged, NoReply)
  \/ \E s \in Souls : ListenerRuns(s)
  \/ ViewGlobalTimeline(TRUE)
  \/ \E l \in {{}, {"U"}} : ViewFollowingTimeline(l, TRUE)
  \/ GetTagPosts(<<"#", "W">>, TRUE)
  \/ \E p \in SubPaths(store, sub) : Deliver(p)
  \/ \E e \in DOMAIN reads : ContentRead(e)
  \/ \E e \in DOMAIN lookups : ProfileRead(e)
  \/ Cancel
  \/ UpdateTimerFires
  \/ LoadingTimeoutFires
  \/ \E u \in Users : Login(u)
  \/ Logout

SpecLoad ==
  /\ Init
  /\ [][NextLoad]_vars
  /\ WF_vars(UpdateTimerFires)
  /\ WF_vars(LoadingTimeoutFires)

\* deletePost on the graph of a peer that has received only part of what
\* publishPost wrote on the peer of the author: user U's post of soul 1, and
\* any subset of the entries that reference it.
ReplicatedPost == [text |-> TextPlain, authorPub |-> "U", timestamp |-> 1,
                   replyTo |-> NoReply]

ReplicaStores ==
  LET ws == PublishWrites(1, Hash(1), ReplicatedPost, DayOf(1))
  IN {[p \in {ws[i][1] : i \in S} |->
         (CHOOSE w \in {ws[i] : i \in S} : w[1] = p)[2]] : S \in SUBSET (1..Len(ws))}

InitRes ==
  /\ quota = [dels |-> MaxDeletes, sides |-> 0, likes |-> 0]
  /\ now = 1
  /\ sea = "ok"
  /\ auth \in Users
  /\ content = [s \in {1} |-> ReplicatedPost]
  /\ store \in ReplicaStores
  /\ refires = 0
  /\ pubRes = [s \in {1} |-> "ok"]
  /\ run = NoRun
  /\ del = NoDel
  /\ dels = 0
  /\ casc = {}
  /\ cascPend = {}
  /\ sides = 0
  /\ likes = 0
  /\ profilesCache = [u \in {} |-> NoProfile]
  /\ currentUserFollowing = {}
  /\ following = {} /\ followers = {} /\ followingSet = {} /\ followersSet = {}
  /\ puts = <<>>
  /\ acks = EmptyBag
  /\ profReads = EmptyBag
  /\ resolved = {}
  /\ sub = NoSub
  /\ delivs = 0
  /\ reads = EmptyBag
  /\ lookups = EmptyBag
  /\ emitted = [h \in {} |-> 0]
  /\ processedPosts = {}
  /\ postsMap = {}
  /\ emittedData = {}
  /\ registered = {}
  /\ listenersRef = {}
  /\ cancels = 0
  /\ loading = FALSE
  /\ posts = {}
  /\ updateTimer = NoTimer
  /\ loadingTimer = FALSE
  /\ lagging = [s \in {} |-> "none"]
  /\ ret = NoRet

NextRes ==
  \/ \E h \in {Hash(s) : s \in Souls} : DeletePost(h)
  \/ DeleteResolve
  \/ DeleteRemove
  \/ DeleteReturn
  \/ \E u \in Users : Login(u)
  \/ Logout

SpecRes == InitRes /\ [][NextRes]_vars

\* The hook goes from one view to the next.
NextSwitch ==
  \/ PublishPost(TextTagged, NoReply)
  \/ \E s \in Souls : ListenerRuns(s)
  \/ ViewGlobalTimeline(TRUE)
  \/ ViewFollowingTimeline({"U"}, TRUE)
  \/ GetTagPosts(<<"#", "W">>, TRUE)
  \/ \E p \in SubPaths(store, sub) : Deliver(p)
  \/ \E e \in DOMAIN reads : ContentRead(e)
  \/ \E e \in DOMAIN lookups : ProfileRead(e)
  \/ \E kind \in {"timeline", "following", "tag"} : SwitchView(kind)
  \/ UpdateTimerFires
  \/ LoadingTimeoutFires
  \/ \E u \in Users : Login(u)
  \/ Logout

SpecSwitch == Init /\ [][NextSwitch]_vars

(***************************************************************************)
(* A peer that the post of another peer is still reaching.                 *)
(***************************************************************************)
\* publishPost wrote on the peer of the author: user U's tagged post of soul 1.
LaggingPost == [text |-> TextTagged, authorPub |-> "U", timestamp |-> 1,
                replyTo |-> NoReply]

\* The index entries have arrived, the entry of #posts has not.
LaggingStore ==
  LET full == PutAll(EmptyStore, PublishWrites(1, Hash(1), LaggingPost, DayOf(1)))
  IN [p \in (DOMAIN full) \ {HashTablePath(Hash(1))} |-> full[p]]

InitLag ==
  /\ quota = [dels |-> 0, sides |-> 0, likes |-> 0]
  /\ now = 1
  /\ sea = "ok"
  /\ auth \in Users
  /\ content = [s \in {1} |-> LaggingPost]
  /\ store = LaggingStore
  /\ refires = 0
  /\ pubRes = [s \in {1} |-> "ok"]
  /\ run = NoRun
  /\ del = NoDel
  /\ dels = 0
  /\ casc = {}
  /\ cascPend = {}
  /\ sides = 0
  /\ likes = 0
  /\ profilesCache = [u \in {} |-> NoProfile]
  /\ currentUserFollowing = {}
  /\ following = {} /\ followers = {} /\ followingSet = {} /\ followersSet = {}
  /\ puts = <<>>
  /\ acks = EmptyBag
  /\ profReads = EmptyBag
  /\ resolved = {}
  /\ sub = NoSub
  /\ delivs = 0
  /\ reads = EmptyBag
  /\ lookups = EmptyBag
  /\ emitted = [h \in {} |-> 0]
  /\ processedPosts = {}
  /\ postsMap = {}
  /\ emittedData = {}
  /\ registered = {}
  /\ listenersRef = {}
  /\ cancels = 0
  /\ loading = FALSE
  /\ posts = {}
  /\ updateTimer = NoTimer
  /\ loadingTimer = FALSE
  /\ lagging \in [{1} -> {"all", "text"}]
  /\ ret = NoRet

\* useUserPosts and getTagPosts on that peer.
NextLag ==
  \/ \E u \in Users : LoadPosts(u)
  \/ \E p \in SubPaths(store, sub) : LoadPostsListener(p)
  \/ \E e \in DOMAIN reads : LoadPostsRead(e)
  \/ LoadPostsTimeoutFires
  \/ \E hook \in BOOLEAN : GetTagPosts(<<"#", "W">>, hook)
  \/ \E p \in SubPaths(store, sub) : sub.kind = "tag" /\ Deliver(p)
  \/ \E e \in DOMAIN reads : sub.kind = "tag" /\ ContentRead(e)
  \/ \E e \in DOMAIN lookups : ProfileRead(e)
  \/ UpdateTimerFires
  \/ \E s \in Souls, whole \in BOOLEAN : Sync(s, whole)
  \/ \E s \in Souls : EntrySync(s)

SpecLag == InitLag /\ [][NextLag]_vars

(***************************************************************************)
(* deletePost on a thread: a post, a reply to it, a reply to the reply...  *)
(***************************************************************************)
\* The post of soul s of the thread: the first is a root, each other replies
\* to the one before it.
ThreadPost(s, authors) ==
  [text |-> TextPlain, authorPub |-> authors[s], timestamp |-> 1,
   replyTo |-> IF s = 1 THEN NoReply ELSE Hash(s - 1)]

\* What publishPost and the listeners of the posts have written.
RECURSIVE ThreadStore(_, _)
ThreadStore(n, authors) ==
  IF n = 0 THEN EmptyStore
  ELSE PutAll(ThreadStore(n - 1, authors),
              PublishWrites(n, Hash(n), ThreadPost(n, authors), DayOf(1)))

InitThread ==
  \E authors \in [1..ThreadLen -> Users] :
    /\ quota = [dels |-> MaxDeletes, sides |-> 0, likes |-> 0]
    /\ now = 1
    /\ sea = "ok"
    /\ auth \in Users
    /\ content = [s \in 1..ThreadLen |-> ThreadPost(s, authors)]
    /\ store = ThreadStore(ThreadLen, authors)
    /\ refires = 0
    /\ pubRes = [s \in 1..ThreadLen |-> "ok"]
    /\ run = NoRun
    /\ del = NoDel
    /\ dels = 0
    /\ casc = {}
    /\ cascPend = {}
    /\ sides = 0
    /\ likes = 0
    /\ profilesCache = [u \in {} |-> NoProfile]
    /\ currentUserFollowing = {}
    /\ following = {} /\ followers = {} /\ followingSet = {} /\ followersSet = {}
    /\ puts = <<>>
    /\ acks = EmptyBag
    /\ profReads = EmptyBag
    /\ resolved = {}
    /\ sub = NoSub
    /\ delivs = 0
    /\ reads = EmptyBag
    /\ lookups = EmptyBag
    /\ emitted = [h \in {} |-> 0]
    /\ processedPosts = {}
    /\ postsMap = {}
    /\ emittedData = {}
    /\ registered = {}
    /\ listenersRef = {}
    /\ cancels = 0
    /\ loading = FALSE
    /\ posts = {}
    /\ updateTimer = NoTimer
    /\ loadingTimer = FALSE
    /\ lagging = [s \in {} |-> "none"]
    /\ ret = NoRet

NextThread ==
  \/ \E h \in KnownHashes : DeletePost(h)
  \/ DeleteResolve
  \/ DeleteRemove
  \/ DeleteReturn
  \/ \E l \in casc : \E k \in ReplyKeys(store, l.parent) : CascadeDeliver(l, k)
  \/ \E h \in cascPend : CascadeResolve(h)
  \/ \E u \in Users : Login(u)
  \/ Logout

SpecThread == InitThread /\ [][NextThread]_vars

(***************************************************************************)
(* Properties of publishPost.                                              *)
(***************************************************************************)
AllHashes == {Hash(s) : s \in Souls}

\* The index entries that refer to the post of hash h.
RefersTo(p, h) ==
  \/ p[1] = "timeline" /\ p[3] = h
  \/ p[1] = "users" /\ p[3] = "posts" /\ p[4] = h
  \/ p[1] = "users" /\ p[3] = "posts_bidirectional" /\ p[4] = NodeSoul(h)
  \/ p[1] = "posts" /\ p[2] = h
  \/ p[1] = "posts" /\ p[3] = "replies" /\ p[4] \in {h, NodeSoul(h)}
  \/ p[1] = "hashtags" /\ Len(p) = 4 /\ p[4] \in {h, NodeSoul(h)}

IndexPaths(st) == {p \in DOMAIN st : p[1] \notin {"#posts", "~"}}

\* C1: while a publish is in progress, and after it, every index entry that
\* refers to a hash h was written after the entry #posts/h -> soul: whenever
\* the store holds an index entry for h, #posts/h already holds a soul.
C1_HashTableFirst ==
  \A p \in IndexPaths(store) : \A h \in AllHashes :
    RefersTo(p, h) => IsSoulVal(Get(store, HashTablePath(h)))

\* A first run of the listener stopped between two of its index writes.
C1_Witness ==
  /\ ~Idle
  /\ pubRes[run.soul] = "pending"
  /\ run.i > 2 /\ run.i <= Len(RunWrites)
  /\ Truthy(Get(store, TimelinePath(DayOf(now), run.hash)))

\* C6: when publishPost of a text carrying the tag #W, called at t0, returns
\* success with hash h, then #posts/h holds the soul of the post, and
\* timeline/{day of t0}/h, hashtags/w/posts/h and users/U/posts/h are present.
C6_PublishScenario ==
  (ret.op = "publishPost" /\ ret.res = "ok" /\ content[ret.soul].text = TextTagged)
  => LET post == content[ret.soul]
         h == Hash(ret.soul)
     IN /\ Get(store, HashTablePath(h)) = <<"soul", ret.soul>>
        /\ Truthy(Get(store, TimelinePath(DayOf(post.timestamp), h)))
        /\ Truthy(Get(store, TagPostsPath(<<"w">>, h)))
        /\ Truthy(Get(store, UserPostsPath(post.authorPub, h)))

PublishFailures == {"unauthenticated", "nopub", "nosea", "hashfail"}

C8_Unauthenticated ==
  [][(ret'.op = "publishPost" /\ ret'.by = NoUser)
       => (ret'.res = "unauthenticated" /\ store' = store /\ content' = content)]_vars

\* An unauthenticated call has just been refused, on a store that holds posts.
C8_Witness ==
  /\ ret = PubRet("unauthenticated", NoSoul, NoUser)
  /\ \E s \in DOMAIN pubRes : pubRes[s] = "ok"

\* C9: when the listener of a published post runs again, with the same soul,
\* hash, text and timestamp, each of its writes finds the entry it is about to
\* write already in place with the same value: no index gains an entry.
C9_IdempotentFanOut ==
  (~Idle /\ pubRes[run.soul] = "ok" /\ run.i <= Len(RunWrites))
  => Get(store, RunWrites[run.i][1]) = RunWrites[run.i][2]

(***************************************************************************)
(* Properties of the content-address table and of deletePost.               *)
(***************************************************************************)
HashTablePaths(st) == {p \in DOMAIN st : p[1] = "#posts"}

\* C2: the content-address table is append-only: no step of publishPost, of
\* deletePost and its cascade, of follow, unfollow, like, repost or
\* updateProfile changes or removes an entry #posts/h that holds a soul.
C2_AppendOnly ==
  [][\A p \in HashTablePaths(store) :
       IsSoulVal(store[p]) => (p \in DOMAIN store' /\ store'[p] = store[p])]_vars

\* A deletePost call has just succeeded on a post the table still resolves.
C2_Witness ==
  /\ ret.op = "deletePost" /\ ret.res = "ok"
  /\ \E p \in HashTablePaths(store) : store[p] = <<"soul", ret.soul>>
  /\ Get(store, UserPostsPath(ret.by, Hash(ret.soul))) = Null

\* C3: the content of a published post never changes: every step leaves the
\* text, authorPub and timestamp of every content node as they were given to
\* publishPost, and #posts/{hash} of a published post resolves to its node.
C3_ContentImmutable ==
  /\ [][\A s \in DOMAIN content :
          /\ s \in DOMAIN content'
          /\ content'[s].text = content[s].text
          /\ content'[s].authorPub = content[s].authorPub
          /\ content'[s].timestamp = content[s].timestamp]_vars
  /\ [](\A s \in DOMAIN content :
          pubRes[s] = "ok" =>
            /\ Get(store, HashTablePath(Hash(s))) = <<"soul", s>>
            /\ ReadNode(content, Get(store, HashTablePath(Hash(s)))[2]).kind = "post")

\* A repost of a published post has just succeeded.
C3_Witness ==
  /\ ret.op = "repost" /\ ret.res = "ok"
  /\ \E s \in DOMAIN content :
       /\ pubRes[s] = "ok"
       /\ Truthy(Get(store, SignedPostsPath(ret.by, Hash(s))))

\* C4: a deletePost call by a user other than the author of the resolved
\* content returns "forbidden" and has issued no write.
C4_Forbidden ==
  (/\ ret.op = "deletePost"
   /\ ret.soul # NoSoul
   /\ ReadNode(content, ret.soul).kind # "none"
   /\ PostAuthor(ReadNode(content, ret.soul)) # ret.by)
  => (ret.res = "forbidden" /\ ret.issued = {})

\* A user who is not the author has just been refused.
C4_Witness ==
  /\ ret.op = "deletePost" /\ ret.res = "forbidden"
  /\ ret.soul \in DOMAIN content
  /\ content[ret.soul].authorPub # ret.by
  /\ ret.by \in Users

DeleteFailures == {"unauthenticated", "notfound", "nodata", "forbidden"}

\* C5: a deletePost call that returns a failure has issued no write: the step
\* that returns it, and the steps of the call before the checks, leave the
\* store as it was.
C5_FailureWritesNothing ==
  [][/\ (ret'.op = "deletePost" /\ ret'.res \in DeleteFailures)
          => (store' = store /\ ret'.issued = {})
     /\ (del' # del /\ del.pc \in {"idle", "resolve"}) => store' = store]_vars

\* A call on a hash that no strategy resolves has just returned, with posts
\* in the store.
C5_Witness ==
  /\ ret.op = "deletePost" /\ ret.res = "notfound"
  /\ ret.by \in Users
  /\ IndexPaths(store) # {}

(***************************************************************************)
(* Properties of subscriptions.                                             *)
(***************************************************************************)
\* C10: however often map().on hands the same reference to the listener of
\* a subscription, the callback given to the subscription is invoked at most
\* once for that post.
C10_EmitsOnce == \A id \in DOMAIN emitted : emitted[id] <= 1

\* C11: a subscription hands a post to its callback only when the resolved
\* content has a non-empty text and a non-empty author: every post that any
\* subscription has emitted carries a text and the public key of a user.
C11_EmitsComplete ==
  \A post \in emittedData : post.text # <<>> /\ post.author \in Users

\* C12: once the cancel function of a subscription has been called, no
\* listener that the subscription registered, the per-post likes and reposts
\* listeners included, is attached to the store.
C12_CancelDetachesAll == cancels > 0 => registered = {}

\* C13: cancelling is idempotent: a call of the cancel function right after
\* another one returns normally and leaves the listeners, the bookkeeping of
\* the hook, the store and everything else as the first call left them.
C13_CancelIdempotent ==
  [][(ret.op = "cancel" /\ ret'.op = "cancel" /\ cancels' # cancels)
       => /\ ret'.res = "ok"
          /\ registered' = registered
          /\ listenersRef' = listenersRef
          /\ processedPosts' = processedPosts
          /\ <<store, sub, reads, lookups, emitted, emittedData, postsMap>>' =
             <<store, sub, reads, lookups, emitted, emittedData, postsMap>>]_vars

\* The cancel function of a subscription that has emitted a post was called
\* a second time.
C13_Witness ==
  /\ ret.op = "cancel" /\ cancels = 2
  /\ sub.kind = "timeline"
  /\ emittedData # {}
  /\ registered = {}

(***************************************************************************)
(* Properties of deletePost and its cascade.                               *)
(***************************************************************************)
\* The timeline shards that hold a reference to h.
ShardsOf(st, h) ==
  {p[2] : p \in {q \in DOMAIN st : q[1] = "timeline" /\ q[3] = h /\ Truthy(st[q])}}

\* C14: when deletePost(h) by the author U returns success and the listener
\* of the post has run once, users/U/posts/h is null, h is null in each of the
\* 7 shards of the lookback window, no shard holds h any more (the window
\* includes the shard publishPost wrote), and #posts/h resolves to the content.
C14_DeleteScenario ==
  (ret.op = "deletePost" /\ ret.res = "ok" /\ refires = 0)
  => LET h == Hash(ret.soul)
         post == ReadNode(content, ret.soul)
     IN /\ Get(store, UserPostsPath(ret.by, h)) = Null
        /\ \A i \in 0..(LookbackDays - 1) :
             Get(store, TimelinePath(DayOf(post.timestamp) - i, h)) = Null
        /\ ShardsOf(store, h) = {}
        /\ Get(store, HashTablePath(h)) = <<"soul", ret.soul>>
        /\ post.kind = "post"

\* C15: when deletePost(h) returns success and the listener of the post has
\* run once, every reference publishPost created for h besides the author
\* index and the timeline is gone: for each tag of the text the entries of h
\* under hashtags/{tag}/posts and the back-link under posts/h/tags, the links
\* posts/h/author and users/U/posts_bidirectional, and for a reply the entries
\* of h under the parent's replies and the link posts/h/replyTo.
C15_LinksRemoved ==
  (ret.op = "deletePost" /\ ret.res = "ok" /\ refires = 0)
  => LET h == Hash(ret.soul)
         post == ReadNode(content, ret.soul)
         tags == HashtagMatches(post.text)
     IN /\ \A i \in 1..Len(tags) :
             /\ ~Truthy(Get(store, TagPostsPath(CleanTag(tags[i]), h)))
             /\ ~Truthy(Get(store, TagPostsPath(CleanTag(tags[i]), NodeSoul(h))))
             /\ ~Truthy(Get(store, PostTagsPath(h, TagSoul(CleanTag(tags[i])))))
        /\ ~Truthy(Get(store, AuthorPath(h)))
        /\ ~Truthy(Get(store, BidirPath(ret.by, NodeSoul(h))))
        /\ post.replyTo # NoReply =>
             /\ ~Truthy(Get(store, RepliesPath(post.replyTo, h)))
             /\ ~Truthy(Get(store, RepliesPath(post.replyTo, NodeSoul(h))))
             /\ ~Truthy(Get(store, ReplyToPath(h)))

\* The published replies to the post of hash h.
RepliesTo(h) ==
  {r \in DOMAIN content : pubRes[r] = "ok" /\ content[r].replyTo = h}

\* The cascade of a deleted parent has nothing left to do: deletePost has
\* returned, its listener has received every child of posts/{h}/replies and
\* every lookup it started has completed.
CascadeDone(h) ==
  /\ del = NoDel
  /\ cascPend = {}
  /\ \E l \in casc : l.parent = h /\ ReplyKeys(store, h) \subseteq l.processed

\* C16: once the cascade of a deleted parent is done (each listener of a post
\* having run once), the parent and each of its replies, whoever wrote it, are
\* gone from the author index of their author and from every timeline shard,
\* and #posts still resolves each of them to its content.
C16_CascadeCorrect ==
  \A s \in DOMAIN content :
    (pubRes[s] = "ok" /\ CascadeDone(Hash(s)) /\ refires = 0)
    => \A r \in RepliesTo(Hash(s)) \cup {s} :
         /\ ~Truthy(Get(store, UserPostsPath(content[r].authorPub, Hash(r))))
         /\ ShardsOf(store, Hash(r)) = {}
         /\ Get(store, HashTablePath(Hash(r))) = <<"soul", r>>

\* Whether one of the four lookups of deletePost finds something for postId.
AnyStrategyHits(st, postId, userPub, today) ==
  \/ IsSoulVal(Get(st, HashTablePath(postId)))
  \/ TimelineLookup(st, postId, today, 0) # NoSoul
  \/ EntrySoul(Get(st, UserPostsPath(userPub, postId))) # NoSoul
  \/ NodeExists(st, postId)

\* C17: the lookups of deletePost end in "not found" exactly when all four
\* strategies miss, and a post that one of them reaches is resolved to its own
\* content node, which the ownership check then reads.
C17_ResolveAny ==
  [][(del.pc = "resolve" /\ del'.pc # "resolve")
       => LET hit == AnyStrategyHits(store, del.postId, del.userPub, DayOf(now))
          IN /\ (ret'.op = "deletePost" /\ ret'.res = "notfound") <=> ~hit
             /\ hit => \A s \in DOMAIN content :
                         Hash(s) = del.postId => del'.soul = s]_vars

\* The posts that a deletePost call has removed before.
Deleted(h) == \E l \in casc : l.parent = h

\* C18: deleting again is idempotent: a deletePost(h) call on a post that was
\* deleted before still resolves h through #posts to the content node, and
\* when the caller is the author (and the listener of the post has not run
\* again) it passes the checks and its removal writes leave the store as the
\* first deletion left it; the call then returns success.
C18_DeleteIdempotent ==
  [][/\ (del.pc = "resolve" /\ del' # del /\ Deleted(del.postId))
          => /\ del'.pc = "data"
             /\ del'.soul \in DOMAIN content
             /\ Hash(del'.soul) = del.postId
             /\ Get(store, HashTablePath(del.postId)) = <<"soul", del'.soul>>
     /\ (/\ del.pc = "data" /\ del' # del /\ Deleted(del.postId)
         /\ del.soul \in DOMAIN content
         /\ content[del.soul].authorPub = del.userPub
         /\ refires = 0)
          => (del'.pc = "wait" /\ store' = store)
     /\ (del.pc = "wait" /\ del' # del)
          => (ret'.op = "deletePost" /\ ret'.res = "ok")]_vars

\* The second deletePost call on the same post has returned success.
C18_Witness ==
  /\ ret.op = "deletePost" /\ ret.res = "ok"
  /\ dels = 2
  /\ Cardinality({l \in casc : l.parent = Hash(ret.soul)}) = 2

(***************************************************************************)
(* Properties of follow and unfollow.                                      *)
(***************************************************************************)
\* b is in users/a/following, and a is in users/b/followers.
InFollowing(st, a, b) == Truthy(Get(st, FollowingPath(a, b)))

InFollowers(st, b, a) == Truthy(Get(st, FollowersPath(b, a)))

\* C19: a follow(B) by A that succeeded has written both entries, B into
\* users/A/following and A into users/B/followers; an unfollow(B) by A that
\* succeeded has tombstoned both; and after any sequence of follow and unfollow
\* calls the two sides agree for every pair of users.
C19_FollowSymmetry ==
  /\ \A a \in Users, b \in Users : InFollowing(store, a, b) <=> InFollowers(store, b, a)
  /\ (ret.op \in {"follow", "unfollow"} /\ ret.res = "ok")
       => \E b \in Users :
            /\ ret.issued = {FollowingPath(ret.by, b), FollowersPath(b, ret.by)}
            /\ ret.op = "follow"
                 => InFollowing(store, ret.by, b) /\ InFollowers(store, b, ret.by)
            /\ ret.op = "unfollow"
                 => /\ Get(store, FollowingPath(ret.by, b)) = Null
                    /\ Get(store, FollowersPath(b, ret.by)) = Null

\* A user has followed again after a follow and an unfollow.
C19_Witness ==
  /\ ret.op = "follow" /\ ret.res = "ok"
  /\ sides = 3
  /\ \E b \in Users : InFollowing(store, ret.by, b) /\ InFollowing(store, b, ret.by)

\* C20: follow(target) on the caller's own key returns a failure and changes
\* neither the store nor the local following list, and no user is ever in
\* the own following or followers list.
C20_NoSelfFollow ==
  /\ [][(ret'.op = "follow" /\ ret'.res = "self")
          => (store' = store /\ currentUserFollowing' = currentUserFollowing
              /\ ret'.issued = {})]_vars
  /\ [](\A u \in Users : ~InFollowing(store, u, u) /\ ~InFollowers(store, u, u))
  /\ [][(ret'.op = "follow" /\ sides' # sides)
          => \A u \in Users :
               ret'.issued \cap {FollowingPath(u, u), FollowersPath(u, u)} = {}]_vars

\* A self-follow has just been refused, with a follow relation in the store.
C20_Witness ==
  /\ ret.op = "follow" /\ ret.res = "self"
  /\ ret.by \in Users
  /\ \E a \in Users, b \in Users : InFollowing(store, a, b)

\* C21: isFollowing(target) is computed from the session and the local
\* following list alone: right after a follow(target) that succeeded it is
\* true, right after an unfollow(target) that succeeded it is false, and it is
\* false for every target while no user is logged in.
C21_IsFollowingLocal ==
  /\ (ret.op = "follow" /\ ret.res = "ok")
       => \A b \in Users : FollowingPath(ret.by, b) \in ret.issued
            => IsFollowing(auth, currentUserFollowing, b)
  /\ (ret.op = "unfollow" /\ ret.res = "ok")
       => \A b \in Users : FollowingPath(ret.by, b) \in ret.issued
            => ~IsFollowing(auth, currentUserFollowing, b)
  /\ auth = NoUser => \A b \in Users : ~IsFollowing(auth, currentUserFollowing, b)

\* A follow has just succeeded after an earlier call, and isFollowing answers
\* true for its target.
C21_Witness ==
  /\ ret.op = "follow" /\ ret.res = "ok"
  /\ sides >= 2
  /\ \E b \in Users \ {ret.by} :
       /\ FollowingPath(ret.by, b) \in ret.issued
       /\ IsFollowing(auth, currentUserFollowing, b)

(***************************************************************************)
(* Properties of the hashtag index and of replies.                         *)
(***************************************************************************)
\* The tags of a text, said without the scan: for each '#' that a word
\* character follows, the longest run of word characters after it, lower-cased.
WordRun(text, i, j) ==
  /\ i < j /\ j <= Len(text)
  /\ text[i] = "#"
  /\ \A k \in (i + 1)..j : text[k] \in WordChars
  /\ j = Len(text) \/ text[j + 1] \notin WordChars

ExpectedTags(text) ==
  {[k \in 1..(j - i) |-> ToLower(text[i + k])] :
     <<i, j>> \in {y \in (1..Len(text)) \X (1..Len(text)) : WordRun(text, y[1], y[2])}}

\* C22: once the listener of a post has run, the hashtag index holds, for
\* each distinct lower-cased match of #\w+ in the text and for nothing else,
\* the tag node, the two entries of the post under hashtags/{tag}/posts and the
\* back-link under posts/{h}/tags: matches that differ in case or repeat share
\* one key, and a text without a match leaves the hashtag index empty.
C22_TagsNormalized ==
  \A s \in DOMAIN content :
    pubRes[s] = "ok" =>
      LET h == Hash(s)
          tags == ExpectedTags(content[s].text)
      IN /\ {p \in DOMAIN store : p[1] = "hashtags"}
              = UNION {{TagPath(c), TagPostsPath(c, h), TagPostsPath(c, NodeSoul(h))} :
                         c \in tags}
         /\ {p \in DOMAIN store : p[1] = "posts" /\ p[3] = "tags"}
              = {PostTagsPath(h, TagSoul(c)) : c \in tags}
         /\ \A p \in DOMAIN store : p[1] = "hashtags" => Truthy(store[p])

\* The post of a text with the same tag in both cases has been indexed.
C22_Witness ==
  /\ ret.op = "publishPost" /\ ret.res = "ok"
  /\ content[ret.soul].text = <<"#", "W", "#", "w">>
  /\ Cardinality({p \in DOMAIN store : p[1] = "hashtags"}) = 3

\* C23: for every published post of hash h2: if it was published as a reply
\* to h, posts/h/replies/h2 holds {hash: h2, timestamp} and posts/h2/replyTo
\* refers to the post node of h; if it was published without replyTo, no
\* replies entry carries h2 and posts/h2/replyTo was never written.
C23_ReplyLinks ==
  \A s \in DOMAIN content :
    pubRes[s] = "ok" =>
      LET post == content[s]
          h2 == Hash(s)
      IN IF post.replyTo # NoReply
         THEN /\ Get(store, RepliesPath(post.replyTo, h2)) = <<"ref", h2, post.timestamp>>
              /\ Get(store, ReplyToPath(h2)) = <<"node", post.replyTo>>
         ELSE /\ \A p \in DOMAIN store :
                   (p[1] = "posts" /\ p[3] = "replies") => p[4] \notin {h2, NodeSoul(h2)}
              /\ ReplyToPath(h2) \notin DOMAIN store

\* The publish of a reply by another user than the author of the parent has
\* returned success.
C23_Witness ==
  /\ ret.op = "publishPost" /\ ret.res = "ok"
  /\ content[ret.soul].replyTo \in KnownHashes
  /\ \E s \in DOMAIN content :
       Hash(s) = content[ret.soul].replyTo /\ content[s].authorPub # ret.by

(***************************************************************************)
(* Properties of the profile cache and of updateProfile.                   *)
(***************************************************************************)
\* The step is a getUserProfile(k) call that starts a read of the store.
LookupReadsStore(k) == sides' # sides /\ profReads' = BagAdd(profReads, k)

\* The step is a getUserProfile(k) call that is answered from the cache.
LookupFromCache(k) ==
  sides' # sides /\ ret'.op = "getUserProfile" /\ ret'.res = "cache" /\ ret'.key = k

LastKnown(c, st, u) ==
  IF u \in DOMAIN c THEN c[u]
  ELSE IF Truthy(Get(st, ProfilePath(u))) THEN Get(st, ProfilePath(u))
  ELSE NoProfile

\* C25: updateProfile merges: the put leaves every field of the stored
\* profile that the partial does not carry as it was, and when the call
\* completes (no other call being in progress) every such field of the cache
\* entry of the user, which the next getUserProfile returns, has its last
\* known value, whether the cache held an entry before or not.
C25_MergeSemantics ==
  [][/\ \A p \in ProfilePartials :
          (sides' # sides /\ acks' = BagAdd(acks, p)
             /\ Truthy(Get(store, ProfilePath(auth))))
          => \A f \in 2..3 :
               p[f] = "" => store'[ProfilePath(auth)][f] = store[ProfilePath(auth)][f]
     /\ (/\ ret'.op = "updateProfile" /\ ret'.res = "ok"
         /\ acks' # acks /\ acks' = EmptyBag
         /\ auth # NoUser)
          => \A f \in 2..3 :
               ret'.profile[f] = ""
                 => profilesCache'[auth][f] = LastKnown(profilesCache, store, auth)[f]]_vars

\* C26: the updateProfile call itself, before any ack of its put, has made
\* the cache entry of the current user carry the new values and has completed.
C26_CacheSynchronous ==
  [][\A p \in ProfilePartials :
       (sides' # sides /\ acks' = BagAdd(acks, p))
       => /\ auth \in DOMAIN profilesCache'
          /\ \A f \in 2..3 : p[f] # "" => profilesCache'[auth][f] = p[f]
          /\ ret'.op = "updateProfile" /\ ret'.res = "ok"]_vars

(***************************************************************************)
(* Properties of the timers and the loading flag of the hook.              *)
(***************************************************************************)
\* C27: once the subscription of a view has been cancelled, no timer that
\* the view started fires: no later step changes the loading flag or the list
\* of posts.
C27_TimersCancelled ==
  [][(cancels > 0 /\ cancels' = cancels) => (loading' = loading /\ posts' = posts)]_vars

\* C28: a view of the hook that is loading, and is not cancelled, gets a post
\* or eventually stops loading with an empty list.
C28_LoadingEnds ==
  (sub.viaHook /\ loading /\ cancels = 0)
    ~> (postsMap # {} \/ cancels > 0 \/ (~loading /\ posts = {}))

\* The content node of a post and its entry of #posts have reached this peer.
CompleteOnPeer(soul) ==
  /\ soul \notin DOMAIN lagging
  /\ IsSoulVal(Get(store, HashTablePath(Hash(soul))))

\* C29: a reference that was delivered before its entry of #posts or its
\* content node was populated is not dropped for good: when it is delivered
\* again after the content has become complete, and the post is neither
\* emitted nor being resolved, its resolution starts. The delivery is the one
\* of the post's reference when the index of the subscription holds no other.
C29_RetriedWhenComplete ==
  [][\A s \in DOMAIN content :
       (/\ delivs' = delivs + 1
        /\ \A p \in SubPaths(store, sub) : p[Len(p)] = Hash(s)
        /\ CompleteOnPeer(s)
        /\ Hash(s) \notin DOMAIN emitted
        /\ \A e \in (DOMAIN reads) \cup (DOMAIN lookups) : e.id # Hash(s))
       => \E e \in DOMAIN reads' : e.id = Hash(s)]_vars

\* C30: the lookup of the author's profile never holds a post back: a post
\* with text and author whose profile lookup is still in flight has already
\* been handed to the subscriber (with a placeholder profile).
C30_EmittedBeforeProfile ==
  \A e \in DOMAIN lookups :
    (e.text # <<>> /\ e.author # NoUser) => e \in emittedData

\* The posts that reach the post of soul s through reply links of any depth.
RECURSIVE ReachesBy(_, _, _)
ReachesBy(r, s, n) ==
  /\ n > 0
  /\ r \in DOMAIN content
  /\ content[r].replyTo # NoReply
  /\ \/ content[r].replyTo = Hash(s)
     \/ \E q \in DOMAIN content :
          Hash(q) = content[r].replyTo /\ ReachesBy(q, s, n - 1)

Descendants(s) == {r \in DOMAIN content : ReachesBy(r, s, Cardinality(DOMAIN content))}

\* C31: once the cascade of deletePost(h) is done, every post that reaches h
\* through reply links of any depth is gone from the author index of its
\* author and from every timeline shard, and its replyTo link is a tombstone.
C31_CascadeTransitive ==
  \A s \in DOMAIN content :
    CascadeDone(Hash(s))
    => \A r \in Descendants(s) :
         /\ ~Truthy(Get(store, UserPostsPath(content[r].authorPub, Hash(r))))
         /\ ShardsOf(store, Hash(r)) = {}
         /\ Get(store, ReplyToPath(Hash(r))) = Null

\* The post of soul s is listed in an index: the author index of its author,
\* a timeline shard, the index of a hashtag of its text, or the replies of its
\* parent.
Listed(st, s) ==
  LET h == Hash(s)
      tags == HashtagMatches(content[s].text)
  IN \/ Truthy(Get(st, UserPostsPath(content[s].authorPub, h)))
     \/ ShardsOf(st, h) # {}
     \/ \E i \in 1..Len(tags) : Truthy(Get(st, TagPostsPath(CleanTag(tags[i]), h)))
     \/ /\ content[s].replyTo # NoReply
        /\ Truthy(Get(st, RepliesPath(content[s].replyTo, h)))

\* C32: a post that deletePost has removed with success, and that no index
\* lists any more, is listed by no later step: publishPost makes a new post
\* of its own, and a later delivery of the post node to the listener that
\* publishPost left on it writes nothing back.
C32_StaysDeleted ==
  [][\A s \in DOMAIN content :
       (Deleted(Hash(s)) /\ del = NoDel /\ ~Listed(store, s)) => ~Listed(store', s)]_vars

\* The post of soul r has lost its author-index entry or a timeline entry.
Pruned(st, st2, r) ==
  \/ /\ Truthy(Get(st, UserPostsPath(content[r].authorPub, Hash(r))))
     /\ ~Truthy(Get(st2, UserPostsPath(content[r].authorPub, Hash(r))))
  \/ ShardsOf(st2, Hash(r)) # ShardsOf(st, Hash(r)) /\ ShardsOf(st2, Hash(r)) \subseteq ShardsOf(st, Hash(r))

\* C33: outside a deletePost call, the listeners that finished calls left
\* behind prune a post only if it is a genuine reply to the deleted post (its
\* content's replyTo names it) that was listed under posts/{h}/replies by the
\* time deletePost(h) returned: no unrelated post, and no reply added later.
C33_PrunesOnlyOwnReplies ==
  [][(del = NoDel /\ del' = NoDel)
       => \A r \in DOMAIN content :
            Pruned(store, store', r)
            => \E l \in casc : /\ content[r].replyTo = l.parent
                               /\ Hash(r) \in l.atReturn]_vars

\* C34: when deletePost(h) has just returned success, a tombstone has been
\* issued for the author-index entry, the timeline entries of the lookback
\* window and the replyTo link of every reply that was listed under
\* posts/{h}/replies when the call started.
C34_CascadeCompleteAtReturn ==
  (ret.op = "deletePost" /\ ret.res = "ok")
  => \A l \in casc :
       l.id = dels
       => \A r \in DOMAIN content :
            Hash(r) \in l.known
            => /\ Get(store, UserPostsPath(content[r].authorPub, Hash(r))) = Null
               /\ \A i \in 0..(LookbackDays - 1) :
                    Get(store, TimelinePath(DayOf(content[r].timestamp) - i, Hash(r))) = Null
               /\ Get(store, ReplyToPath(Hash(r))) = Null

\* C35: once the view of the hook has been cleared and no update of the list
\* is pending, a callback of the cleared subscription that fires late (a
\* content or profile read that completes after the cancel) neither changes
\* the displayed posts nor schedules a change of them.
C35_LateCallbackIgnored ==
  [][(sub.viaHook /\ cancels > 0 /\ cancels' = cancels /\ updateTimer = NoTimer)
       => (posts' = posts /\ updateTimer' = NoTimer)]_vars

\* C36: when the hook starts a view while another is open, the call runs
\* every cleanup of the previous view and clears the dedup set: after it the
\* only live store listener is the index listener of the new view.
C36_OneViewLive ==
  [][(sub # NoSub /\ sub' # sub)
       => (registered' = CancelFn(sub') /\ processedPosts' = {})]_vars

\* C37: once a list listener of useFollow has received the latest value of a
\* key, the list holds the key exactly when that value is a non-empty entry:
\* a tombstone removes the key, and a re-follow leaves it in the list.
C37_ListsConverge ==
  /\ ret.op = "loadFollowing"
       => (ret.key \in following
             <=> HasFields(Get(store, FollowingPath(TargetUserPub, ret.key))))
  /\ ret.op = "loadFollowers"
       => (ret.key \in followers
             <=> HasFields(Get(store, FollowersPath(TargetUserPub, ret.key))))

\* C38: the placeholder profile is not retained: once the store holds a
\* profile for a key, no getUserProfile for that key answers with the
\* placeholder.
C38_PlaceholderTemporary ==
  (ret.op = "getUserProfile" /\ Truthy(Get(store, ProfilePath(ret.key))))
    => ret.profile # Anonimo

\* C39: viewFollowingTimeline hands a post to its callback only if the
\* post's authorPub is in followingList; with an empty followingList no
\* listener is attached, nothing is read or delivered, and the returned
\* cancel function changes none of this.
C39_OnlyFollowedAuthors ==
  /\ sub.kind = "following" => \A d \in emittedData : d.author \in sub.following
  /\ sub.kind = "empty"
       => /\ registered = {} /\ delivs = 0
          /\ reads = EmptyBag /\ lookups = EmptyBag
          /\ emittedData = {} /\ DOMAIN emitted = {}

\* A following timeline that has received two entries of today's shard, one
\* of them of an author outside followingList, and has emitted only the other.
C39_Witness ==
  /\ sub.kind = "following" /\ delivs = 2
  /\ reads = EmptyBag /\ lookups = EmptyBag
  /\ \E s \in DOMAIN content :
       /\ content[s].authorPub \notin sub.following
       /\ Truthy(Get(store, TimelinePath(sub.today, Hash(s))))
  /\ \E h \in DOMAIN emitted : DOMAIN emitted = {h} /\ emitted[h] = 1

\* An empty followingList whose cancel function has been called.
C39_WitnessEmpty ==
  sub.kind = "empty" /\ ret.op = "cancel" /\ cancels > 0 /\ DOMAIN content # {}

\* C40: every gunPut call invokes resolve or reject at most once, and has
\* done so once its timer is no longer pending; it resolves on an ack
\* without err or on the timeout, and rejects on an ack with err or on a
\* throw of put; when an ack or a throw settles it the timer is cleared, and
\* an ack after the settlement changes nothing.
C40_SettlesOnce ==
  \A i \in DOMAIN puts :
    LET p == puts[i] IN
    /\ Len(p.settles) <= 1
    /\ ~p.timeoutId => Len(p.settles) = 1
    /\ p.resolved <=> Len(p.settles) = 1
    /\ p.settles # <<>> =>
         /\ p.settles[1][1] \in {"ack", "timeout"} <=> p.settles[1][2] = "resolve"
         /\ p.settles[1][1] \in {"ackerr", "throw"} <=> p.settles[1][2] = "reject"
         /\ p.settles[1][1] # "timeout" => ~p.timeoutId

\* A call settled by its timeout whose ack arrived afterwards, next to a
\* call settled by an ack whose timer was cleared.
C40_Witness ==
  \E i, j \in DOMAIN puts :
    /\ puts[i].settles = << <<"timeout", "resolve">> >> /\ puts[i].acks = MaxAcks
    /\ puts[j].settles = << <<"ackerr", "reject">> >> /\ ~puts[j].timeoutId

====
